---- MODULE Spec2Model ----
(***************************************************************************)
(* A model of the crawl engine of the Web-Crawler repository:              *)
(*   - crawler/frontier.py : normalize_url, BloomFilter, URLItem and the   *)
(*     URLFrontier (heapq priority queue, seen filter, in-progress set,    *)
(*     asyncio lock and condition variable);                               *)
(*   - crawler/fetcher.py  : RateLimiter.                                  *)
(* Strings are sequences of one-character strings, so that parsing,        *)
(* lower-casing, stripping and sorting are computed, not assumed.          *)
(***************************************************************************)
EXTENDS Integers, Sequences, FiniteSets, TLC

(***************************************************************************)
(* Character strings.                                                      *)
(***************************************************************************)

\* The characters used by the URLs of the model, in code-point order.
Ascii ==
    << "#", "&", "+", "-", ".", "/",
       "0", "1", "2", "3", "4", "5", "6", "7", "8", "9",
       ":", "=", "?",
       "A", "B", "C", "D", "E", "F", "G", "H", "I", "J", "K", "L", "M",
       "N", "O", "P", "Q", "R", "S", "T", "U", "V", "W", "X", "Y", "Z",
       "a", "b", "c", "d", "e", "f", "g", "h", "i", "j", "k", "l", "m",
       "n", "o", "p", "q", "r", "s", "t", "u", "v", "w", "x", "y", "z" >>

\* F(x) with x evaluated once, before F is applied (operator arguments are
\* otherwise evaluated at each use).
Let(x, F(_)) == CHOOSE r \in {F(y) : y \in {x}} : TRUE

Ord(c) == Let(c, LAMBDA d : CHOOSE i \in 1..Len(Ascii) : Ascii[i] = d)

OrdUpperA == Ord("A")

OrdUpperZ == Ord("Z")

OrdLowerA == Ord("a")

OrdLowerZ == Ord("z")

OrdZero == Ord("0")

OrdNine == Ord("9")

IsUpper(c) == Let(Ord(c), LAMBDA o : o >= OrdUpperA /\ o <= OrdUpperZ)

IsLower(c) == Let(Ord(c), LAMBDA o : o >= OrdLowerA /\ o <= OrdLowerZ)

IsDigit(c) == Let(Ord(c), LAMBDA o : o >= OrdZero /\ o <= OrdNine)

\* str.lower() on one character.
LowerChar(c) ==
    Let(Ord(c), LAMBDA o : IF o >= OrdUpperA /\ o <= OrdUpperZ
                           THEN Ascii[o + (OrdLowerA - OrdUpperA)]
                           ELSE Ascii[o])

\* str.lower()
Lower(s) == Let(s, LAMBDA t : [i \in 1..Len(t) |-> LowerChar(t[i])])

\* s[n:] with a zero-based index, as Python slices.
Drop(s, n) ==
    Let(s, LAMBDA t : Let(n, LAMBDA k :
        IF k >= Len(t) THEN << >> ELSE SubSeq(t, k + 1, Len(t))))

\* s[:n]
Take(s, n) ==
    Let(s, LAMBDA t : Let(n, LAMBDA k :
        IF k <= 0 THEN << >> ELSE SubSeq(t, 1, IF k > Len(t) THEN Len(t) ELSE k)))

\* str.startswith
StartsWith(s, p) ==
    Let(s, LAMBDA t : Let(p, LAMBDA q : Len(q) <= Len(t) /\ Take(t, Len(q)) = q))

\* str.endswith
EndsWith(s, p) ==
    Let(s, LAMBDA t : Let(p, LAMBDA q :
        Len(q) <= Len(t) /\ Drop(t, Len(t) - Len(q)) = q))

\* str.find for a set of characters: the zero-based position of the first
\* character of s that is in cs, or Len(s) when there is none.
FindAny(s, cs) ==
    Let(s, LAMBDA t :
        IF \E i \in 1..Len(t) : t[i] \in cs
        THEN (CHOOSE i \in 1..Len(t) :
                 t[i] \in cs /\ \A j \in 1..(i - 1) : t[j] \notin cs) - 1
        ELSE Len(t))

\* str.rstrip(c)
RStrip(s, c) ==
    Let(s, LAMBDA t :
        IF \E i \in 1..Len(t) : t[i] # c
        THEN Take(t, CHOOSE i \in 1..Len(t) :
                        t[i] # c /\ \A j \in (i + 1)..Len(t) : t[j] = c)
        ELSE << >>)

\* str.split(sep) for a one-character separator: never empty, keeps empty parts.
RECURSIVE Split(_, _)
Split(s, sep) ==
    Let(s, LAMBDA t : Let(FindAny(t, {sep}), LAMBDA k :
        IF k = Len(t) THEN << t >> ELSE << Take(t, k) >> \o Split(Drop(t, k + 1), sep)))

\* sep.join(parts)
RECURSIVE Join(_, _)
Join(parts, sep) ==
    Let(parts, LAMBDA ps :
        IF ps = << >> THEN << >>
        ELSE IF Len(ps) = 1 THEN ps[1]
        ELSE ps[1] \o << sep >> \o Join(Tail(ps), sep))

\* a < b for strings: lexicographic by code point.
RECURSIVE StrLess(_, _)
StrLess(a, b) ==
    Let(a, LAMBDA x : Let(b, LAMBDA y :
        IF y = << >> THEN FALSE
        ELSE IF x = << >> THEN TRUE
        ELSE IF x[1] # y[1] THEN Ord(x[1]) < Ord(y[1])
        ELSE StrLess(Tail(x), Tail(y))))

\* Insertion of x into a sorted list, after the elements that are not greater
\* (the order sorted() produces; equal strings are indistinguishable).
RECURSIVE InsertSorted(_, _)
InsertSorted(x, l) ==
    Let(l, LAMBDA m :
        IF m = << >> THEN << x >>
        ELSE IF StrLess(x, m[1]) THEN << x >> \o m
        ELSE << m[1] >> \o InsertSorted(x, Tail(m)))

\* sorted(list of strings)
RECURSIVE Sorted(_)
Sorted(l) ==
    Let(l, LAMBDA m : IF m = << >> THEN << >> ELSE InsertSorted(m[1], Sorted(Tail(m))))

(***************************************************************************)
(* urllib.parse.urlparse / urlunparse, as normalize_url uses them.         *)
(***************************************************************************)

\* None, for an optional string: the empty string (the program tests these
\* values by truth, and no URL is empty).
None == << >>

SchemeChars == {"+", "-", "."}

\* A URL scheme: a letter followed by letters, digits, "+", "-", ".".
IsScheme(s) ==
    Let(s, LAMBDA t :
        /\ t # << >>
        /\ IsUpper(t[1]) \/ IsLower(t[1])
        /\ \A i \in 1..Len(t) :
              IsUpper(t[i]) \/ IsLower(t[i]) \/ IsDigit(t[i]) \/ t[i] \in SchemeChars)

\* urlparse: the scheme (lower-cased by urlparse) and what follows its ":".
SplitScheme(url) ==
    Let(FindAny(url, {":"}), LAMBDA colon :
        IF colon < Len(url) /\ IsScheme(Take(url, colon))
        THEN [scheme |-> Lower(Take(url, colon)), rest |-> Drop(url, colon + 1)]
        ELSE [scheme |-> << >>, rest |-> url])

\* urlparse: the netloc after "//", up to the first "/", "?" or "#".
SplitNetloc(rest) ==
    IF StartsWith(rest, << "/", "/" >>)
    THEN Let(Drop(rest, 2), LAMBDA after :
             Let(FindAny(after, {"/", "?", "#"}), LAMBDA netEnd :
                 [netloc |-> Take(after, netEnd), rest |-> Drop(after, netEnd)]))
    ELSE [netloc |-> << >>, rest |-> rest]

\* urlparse: path, query and fragment.
SplitPath(rest) ==
    Let(FindAny(rest, {"#"}), LAMBDA hashPos :
        Let(Take(rest, hashPos), LAMBDA before :
            Let(FindAny(before, {"?"}), LAMBDA qPos :
                [path |-> Take(before, qPos), query |-> Drop(before, qPos + 1),
                 fragment |-> Drop(rest, hashPos + 1)])))

\* urlparse(url): scheme, netloc, path, params, query, fragment.  The alphabet
\* has no ";", so params is always empty.
urlparse(url) ==
    Let(url, LAMBDA u :
        Let(SplitScheme(u), LAMBDA a :
            Let(SplitNetloc(a.rest), LAMBDA b :
                Let(SplitPath(b.rest), LAMBDA c :
                    [scheme |-> a.scheme, netloc |-> b.netloc, path |-> c.path,
                     params |-> << >>, query |-> c.query, fragment |-> c.fragment]))))

\* urlunparse((scheme, netloc, path, params, query, fragment)).
urlunparse(scheme, netloc, path, params, query, fragment) ==
    LET p1 == IF netloc # << >>
              THEN << "/", "/" >> \o netloc
                   \o (IF path # << >> /\ path[1] # "/" THEN << "/" >> ELSE << >>) \o path
              ELSE path
        p2 == IF scheme # << >> THEN scheme \o << ":" >> \o p1 ELSE p1
        p3 == IF query # << >> THEN p2 \o << "?" >> \o query ELSE p2
    IN  IF fragment # << >> THEN p3 \o << "#" >> \o fragment ELSE p3

\* urljoin(base, url) for the two shapes the model uses: an absolute URL is
\* kept, an absolute path replaces the base's path, query and fragment.
urljoin(base, url) ==
    Let(urlparse(url), LAMBDA u : Let(urlparse(base), LAMBDA b :
        IF u.scheme # << >> THEN url
        ELSE urlunparse(b.scheme, b.netloc, u.path, << >>, u.query, u.fragment)))

s_http == << "h", "t", "t", "p" >>

s_https == << "h", "t", "t", "p", "s" >>

\* normalize_url: netloc without a default port.
StripDefaultPort(netloc, scheme) ==
    Let(netloc, LAMBDA n :
        IF EndsWith(n, << ":", "8", "0" >>) /\ scheme = s_http
        THEN Take(n, Len(n) - 3)
        ELSE IF EndsWith(n, << ":", "4", "4", "3" >>) /\ scheme = s_https
        THEN Take(n, Len(n) - 4)
        ELSE n)

\* normalize_url: parsed.path or "/", without trailing slashes unless root.
NormalizePath(path) ==
    Let(IF path # << >> THEN path ELSE << "/" >>, LAMBDA p :
        IF p # << "/" >> /\ EndsWith(p, << "/" >>) THEN RStrip(p, "/") ELSE p)

\* A faulty query: the components are left in the order given.
SortQuery_Kept(query) == query

\* normalize_url: the "&"-separated components of the query, sorted.
SortQuery(query) ==
    Let(query, LAMBDA q : IF q # << >> THEN Join(Sorted(Split(q, "&")), "&") ELSE q)

\* normalize_url(url, base_url): the canonical string, or None.
normalize_url(url, base_url) ==
    Let(urlparse(IF base_url # None THEN urljoin(base_url, url) ELSE url), LAMBDA parsed :
        IF parsed.scheme \notin {s_http, s_https}
        THEN None
        ELSE Let(Lower(parsed.scheme), LAMBDA scheme :
                 urlunparse(scheme, StripDefaultPort(Lower(parsed.netloc), scheme),
                            NormalizePath(parsed.path), parsed.params,
                            SortQuery(parsed.query), << >>)))

\* get_domain(url)
get_domain(url) == Lower(urlparse(url).netloc)

(***************************************************************************)
(* Program constants and the inputs of the model.                          *)
(***************************************************************************)

\* class Priority(IntEnum)
HIGHEST == 0

HIGH == 1

NORMAL == 2

LOW == 3

Priorities == {HIGHEST, HIGH, NORMAL, LOW}

\* BloomFilter(hash_count=5)
HashCount == 5

\* URLFrontier.retry(item, max_retries=3)
MaxRetries == 3

\* The size of the filter's bit array (max_size * 10 in the program).
BloomSize == 9

\* The number of times time.time() is read by an insertion.
MaxClock == 4

Callers == {"w1", "w2"}

Free == "free"

u_sep == << ":", "/", "/" >>

\* The URL strings callers pass to add: three spellings of one page, a page with
\* an unsorted query, a page with a default port, and a rejected scheme.
RawURLs ==
    { s_https \o u_sep \o << "H", ".", "i", "o", "/", "a", "/" >>,
      s_https \o u_sep \o << "h", ".", "i", "o", "/", "a", "#", "f" >>,
      s_https \o u_sep \o << "h", ".", "i", "o", "/", "a" >>,
      s_https \o u_sep \o << "h", ".", "i", "o", "/", "b", "?", "z", "&", "a" >>,
      s_https \o u_sep \o << "h", ".", "i", "o", ":", "4", "4", "3", "/", "c" >>,
      << "f", "t", "p" >> \o u_sep \o << "h", ".", "i", "o", "/", "x" >> }

\* The pages of a second site on the same host.
\* The names are such that the stand-in for md5 below tells the pages apart
\* in a filter of BloomSize bits, as md5 does in the filter of the program.
site_root == s_https \o u_sep \o << "h", ".", "i", "o", "/" >>

site_a == s_https \o u_sep \o << "h", ".", "i", "o", "/", "a", "t" >>

site_b == s_https \o u_sep \o << "h", ".", "i", "o", "/", "b", "x" >>

site_c == s_https \o u_sep \o << "h", ".", "i", "o", "/", "c" >>

\* Pages of another host.
ext_x == s_https \o u_sep \o << "g", ".", "i", "o", "/", "x" >>

ext_e == s_https \o u_sep \o << "g", ".", "i", "o", "/", "e" >>

\* The URLs that reach the frontier from pages only.
LinkedURLs == {site_root, site_a, site_b, site_c, ext_e}

\* normalize_url on the inputs of the model, computed once.
Normalized == [u \in RawURLs \cup LinkedURLs |-> normalize_url(u, None)]

CanonURLs == {Normalized[u] : u \in RawURLs \cup LinkedURLs} \ {None}

(***************************************************************************)
(* BloomFilter                                                             *)
(***************************************************************************)

\* A stand-in for int(md5(s).hexdigest(), 16): a rolling hash of the string.
RECURSIVE Digest(_, _)
Digest(s, h) ==
    Let(s, LAMBDA t : Let(h, LAMBDA g :
        IF t = << >> THEN g ELSE Digest(Tail(t), (g * 33 + Ord(t[1])) % 65521)))

\* str(i) for one digit
DigitChar(i) == Ascii[OrdZero + i]

\* BloomFilter._get_hashes(item)
get_hashes(item) ==
    {Digest(item \o << DigitChar(i) >>, 5381) % BloomSize : i \in 0..(HashCount - 1)}

\* _get_hashes on the canonical URLs of the model, computed once.
Hashes == [u \in CanonURLs |-> get_hashes(u)]

\* A faulty add: the loop over the hashes stops after the smallest one.
BloomAddBits_FirstOnly(bits, item) ==
    [h \in DOMAIN bits |->
        IF h \in Hashes[item] /\ (\A g \in Hashes[item] : h <= g) THEN TRUE ELSE bits[h]]

\* BloomFilter.add(item): the bit array after the insertion.
BloomAddBits(bits, item) ==
    [h \in DOMAIN bits |-> IF h \in Hashes[item] THEN TRUE ELSE bits[h]]

\* BloomFilter.add(item): the insert counter after the insertion.
BloomAddCount(count) == count + 1

\* BloomFilter.__contains__(item)
BloomContains(bits, item) == \A h \in Hashes[item] : bits[h]

(***************************************************************************)
(* URLItem and heapq                                                       *)
(***************************************************************************)

\* URLItem(priority, timestamp, url, depth, parent_url, retry_count)
URLItem(priority, timestamp, url, depth, parent_url, retry_count) ==
    [priority |-> priority, timestamp |-> timestamp, url |-> url, depth |-> depth,
     parent_url |-> parent_url, retry_count |-> retry_count]

\* A faulty comparison: the order of the priorities is reversed.
ItemLess_Reversed(a, b) == a.priority > b.priority

\* URLItem.__lt__ of @dataclass(order=True): only priority has compare=True.
ItemLess(a, b) == a.priority < b.priority

\* heapq._siftdown(heap, startpos, pos), positions zero-based as in heapq.
RECURSIVE siftdown_loop(_, _, _, _)
siftdown_loop(heap, startpos, pos, newitem) ==
    IF pos > startpos
    THEN LET parentpos == (pos - 1) \div 2
             parent    == heap[parentpos + 1]
         IN  IF ItemLess(newitem, parent)
             THEN siftdown_loop([heap EXCEPT ![pos + 1] = parent], startpos, parentpos, newitem)
             ELSE [heap EXCEPT ![pos + 1] = newitem]
    ELSE [heap EXCEPT ![pos + 1] = newitem]

siftdown(heap, startpos, pos) == siftdown_loop(heap, startpos, pos, heap[pos + 1])

\* heapq._siftup(heap, pos): bubble the smaller child up to a leaf, then sift
\* the displaced item down from there.
RECURSIVE siftup_loop(_, _, _, _)
siftup_loop(heap, startpos, pos, newitem) ==
    LET endpos == Len(heap)
        left   == 2 * pos + 1
    IN  IF left < endpos
        THEN LET rightpos == left + 1
                 childpos == IF rightpos < endpos
                                /\ ~ItemLess(heap[left + 1], heap[rightpos + 1])
                             THEN rightpos
                             ELSE left
             IN  siftup_loop([heap EXCEPT ![pos + 1] = heap[childpos + 1]],
                             startpos, childpos, newitem)
        ELSE siftdown([heap EXCEPT ![pos + 1] = newitem], startpos, pos)

siftup(heap, pos) == siftup_loop(heap, pos, pos, heap[pos + 1])

\* heapq.heappush(heap, item)
heappush(heap, item) == siftdown(Append(heap, item), 0, Len(heap))

\* heapq.heappop(heap): the item returned.
heappop_item(heap) == heap[1]

\* heapq.heappop(heap): the heap left.
heappop_rest(heap) ==
    LET lastelt == heap[Len(heap)]
        rest    == SubSeq(heap, 1, Len(heap) - 1)
    IN  IF rest # << >> THEN siftup([rest EXCEPT ![1] = lastelt], 0) ELSE rest

(***************************************************************************)
(* URLFrontier                                                             *)
(***************************************************************************)

VARIABLES
    queue,            \* URLFrontier._queue: the heap, a list of URLItem
    seen_bits,        \* URLFrontier._seen.bit_array
    seen_count,       \* URLFrontier._seen._count
    in_progress,      \* URLFrontier._in_progress
    completed_count,  \* URLFrontier._completed_count
    error_count,      \* URLFrontier._error_count
    lock,             \* URLFrontier._lock: Free or the caller holding it
    cond_lock,        \* the lock of URLFrontier._not_empty
    waiters,          \* the callers blocked in _not_empty.wait(), oldest first
    clock,            \* time.time()
    pc,               \* where each caller is in the frontier method it runs
    local,            \* the running call's locals: normalized (add), timeout (get)
    held,             \* the item each caller got from get and has not finished
    added,            \* history: canonical URLs for which add returned True
    dispatched,       \* history: how many times get returned each URL
    requeued          \* history: how many times retry re-enqueued each URL

fvars == << queue, seen_bits, seen_count, in_progress, completed_count, error_count,
            lock, cond_lock, waiters, clock, pc, local, held, added,
            dispatched, requeued >>

\* RateLimiter (declared here because every action leaves the other
\* component's variables unchanged).
VARIABLES
    min_interval,     \* RateLimiter.min_interval, in ticks
    last_request,     \* RateLimiter._last_request; 0 is .get(domain, 0)
    rl_lock,          \* RateLimiter._lock: Free or the caller holding it
    now,              \* time.time(), in ticks
    rpc,              \* where each caller is in acquire
    rlocal,           \* acquire's locals: domain, the interval read, the wake-up time
    grants,           \* history: how many times acquire recorded each host
    first_grant       \* history: the first time acquire recorded for each host

rvars == << min_interval, last_request, rl_lock, now, rpc, rlocal, grants, first_grant >>

\* HTTPFetcher.fetch
VARIABLES
    fetch,            \* the fetch call of each caller: stage, domain, retry_count, ...
    last_get,         \* history: when the last GET to each host started; -1 is never
    attempts,         \* history: how many GETs the call of each caller has issued
    backoffs          \* history: the back-off sleeps of the call of each caller, in order

hvars == << fetch, last_get, attempts, backoffs >>

\* The robots.txt parser and manager.
VARIABLES
    robots_txt,       \* parse: the content being parsed
    user_agent,       \* RobotsParser.user_agent
    parsed,           \* history: parse has been applied to robots_txt
    rules,            \* the RobotsRules at hand: parsed, or given to is_allowed
    path,             \* is_allowed: the path asked about
    verdict,          \* is_allowed: "none" before the call, then its result
    cache,            \* RobotsManager._cache
    rcall,            \* the get_rules call of each caller
    fetched           \* history: how often robots.txt of each host was fetched

bvars == << robots_txt, user_agent, parsed, rules, path, verdict, cache, rcall, fetched >>

\* The crawler.
VARIABLES
    config,           \* CrawlerConfig: max_pages, max_depth, respect_robots_txt, parse_sitemaps
    stats,            \* CrawlStats: pages_crawled, pages_failed, pages_skipped
    running,          \* Crawler._running
    main,             \* where crawl() is
    mlinks,           \* crawl(): the sitemap URLs still to add
    wpc,              \* where each worker is
    wlinks,           \* _process_page: the links each worker has still to add
    requested         \* history: the URLs the workers have requested

cvars == << config, stats, running, main, mlinks, wpc, wlinks, requested >>

\* The calls of normalize_url and of get_crawlable_links on inputs of their own.
VARIABLES
    n_parts,          \* normalize_url: the components the URL given was written from
    n_once,           \* normalize_url(url), once called
    n_twice,          \* normalize_url(normalize_url(url)), once called
    lk_page,          \* get_crawlable_links: parsed (metadata.robots and links)
    lk_opts,          \* get_crawlable_links: respect_nofollow, internal_only
    lk_out            \* get_crawlable_links: the list returned, once called

\* The calls of SitemapManager.process_sitemap on sitemaps of their own.
VARIABLES
    site_maps,          \* what the site answers for each sitemap URL
    sm_stack,           \* the frames of process_sitemap, the outermost first
    processed_sitemaps, \* SitemapManager._processed_sitemaps
    discovered_urls,    \* SitemapManager._discovered_urls
    sm_fetches,         \* history: how often each sitemap URL was fetched
    sm_deepest,         \* history: the deepest level of nesting a fetch was made at
    sm_out,             \* the list the outermost call returned, once it has
    sm_calls            \* history: the number of outermost calls made

mvars ==
    << site_maps, sm_stack, processed_sitemaps, discovered_urls, sm_fetches, sm_deepest,
       sm_out, sm_calls >>

pvars == << n_parts, n_once, n_twice, lk_page, lk_opts, lk_out, mvars >>

\* The storage of a crawl, which outlives the process, and the control of the
\* process.
VARIABLES
    session,          \* crawl_sessions: the latest row (status, pages_crawled, pages_failed)
    url_table,        \* urls: the status of the row of each URL of the session
    content_log,      \* content_<session>.jsonl: how many records it holds for each URL
    shutdown,         \* Crawler._shutdown_event
    released,         \* _cleanup has stopped the fetcher and closed the storage
    resume,           \* crawl(seed_url, resume): this process resumes a session
    wres,             \* _worker: the kind of result _fetch_page returned
    killed,           \* history: the process was killed once
    completed_urls    \* history: the URLs frontier.complete(url, success=True) was called for

svars == << session, url_table, content_log, shutdown, released, resume, wres, killed,
            completed_urls >>

\* The absence of an item (get returning None, a caller holding nothing).
NoItem == URLItem(-1, -1, None, 0, None, 0)

NoLocal == [normalized |-> None, timeout |-> FALSE]

\* URLFrontier.__init__
FrontierInit ==
    /\ queue = << >>
    /\ seen_bits = [h \in 0..(BloomSize - 1) |-> FALSE]
    /\ seen_count = 0
    /\ in_progress = {}
    /\ completed_count = 0
    /\ error_count = 0
    /\ lock = Free
    /\ cond_lock = Free
    /\ waiters = << >>
    /\ clock = 0
    /\ pc = [c \in Callers |-> "idle"]
    /\ local = [c \in Callers |-> NoLocal]
    /\ held = [c \in Callers |-> NoItem]
    /\ added = {}
    /\ dispatched = [u \in CanonURLs |-> 0]
    /\ requeued = [u \in CanonURLs |-> 0]

\* URLFrontier.add: normalize_url rejected the URL, add returns False.
AddInvalidStep(c, url, parent_url) ==
    /\ pc[c] = "idle"
    /\ parent_url = None
    /\ Normalized[url] = None
    /\ UNCHANGED << queue, seen_bits, seen_count, in_progress, completed_count,
                    error_count, lock, cond_lock, waiters, clock, pc, local, held,
                    added, dispatched, requeued >>

AddInvalid(c, url, parent_url) ==
    AddInvalidStep(c, url, parent_url) /\ UNCHANGED << rvars, hvars, bvars, cvars, pvars, svars >>

\* A faulty test: the seen filter is not consulted.
AlreadyKnown_InProgressOnly(normalized) ==
    normalized \in in_progress

\* The test of URLFrontier.add under _lock.
AlreadyKnown(normalized) ==
    BloomContains(seen_bits, normalized) \/ normalized \in in_progress

\* URLFrontier.add, under _lock: the URL is in the seen filter or in progress,
\* add returns False.
AddSeenStep(c, url, parent_url) ==
    LET normalized == Normalized[url]
    IN  /\ pc[c] = "idle"
        /\ parent_url = None
        /\ normalized # None
        /\ lock = Free
        /\ AlreadyKnown(normalized)
        /\ UNCHANGED << queue, seen_bits, seen_count, in_progress, completed_count,
                        error_count, lock, cond_lock, waiters, clock, pc, local,
                        held, added, dispatched, requeued >>

AddSeen(c, url, parent_url) ==
    AddSeenStep(c, url, parent_url) /\ UNCHANGED << rvars, hvars, bvars, cvars, pvars, svars >>

\* URLFrontier.add, under _lock: the URL is recorded as seen and pushed; the
\* caller keeps _lock while it waits for the condition's lock.
AddPushStep(c, url, priority, depth, parent_url) ==
    LET normalized == Normalized[url]
    IN  /\ pc[c] = "idle"
        /\ parent_url = None
        /\ normalized # None
        /\ lock = Free
        /\ ~AlreadyKnown(normalized)
        /\ clock < MaxClock
        /\ seen_bits' = BloomAddBits(seen_bits, normalized)
        /\ seen_count' = BloomAddCount(seen_count)
        /\ clock' = clock + 1
        /\ queue' = heappush(queue, URLItem(priority, clock', normalized, depth, parent_url, 0))
        /\ lock' = c
        /\ pc' = [pc EXCEPT ![c] = "add_notify"]
        /\ local' = [local EXCEPT ![c] = [normalized |-> normalized, timeout |-> FALSE]]
        /\ added' = added \cup {normalized}
        /\ UNCHANGED << in_progress, completed_count, error_count, cond_lock, waiters,
                        held, dispatched, requeued >>

AddPush(c, url, priority, depth, parent_url) ==
    AddPushStep(c, url, priority, depth, parent_url) /\ UNCHANGED << rvars, hvars, bvars, cvars, pvars, svars >>

\* URLFrontier.add: async with self._not_empty: notify() wakes the oldest
\* waiter; _lock is released and add returns True.
AddNotifyStep(c) ==
    /\ pc[c] = "add_notify"
    /\ cond_lock = Free
    /\ IF waiters # << >>
       THEN /\ waiters' = Tail(waiters)
            /\ pc' = [pc EXCEPT ![c] = "idle", ![waiters[1]] = "get_woken"]
       ELSE /\ waiters' = waiters
            /\ pc' = [pc EXCEPT ![c] = "idle"]
    /\ lock' = Free
    /\ local' = [local EXCEPT ![c] = NoLocal]
    /\ UNCHANGED << queue, seen_bits, seen_count, in_progress, completed_count,
                    error_count, cond_lock, clock, held, added, dispatched, requeued >>

AddNotify(c) ==
    AddNotifyStep(c) /\ UNCHANGED << rvars, hvars, bvars, cvars, pvars, svars >>

\* URLFrontier.get: async with self._not_empty is entered.  A caller holds at
\* most one item, as a worker of the crawler does.
GetStartStep(c, timeout) ==
    /\ pc[c] = "idle"
    /\ held[c] = NoItem
    /\ cond_lock = Free
    /\ cond_lock' = c
    /\ pc' = [pc EXCEPT ![c] = "get_check"]
    /\ local' = [local EXCEPT ![c] = [normalized |-> None, timeout |-> timeout]]
    /\ UNCHANGED << queue, seen_bits, seen_count, in_progress, completed_count,
                    error_count, lock, waiters, clock, held, added, dispatched, requeued >>

GetStart(c, timeout) ==
    GetStartStep(c, timeout) /\ UNCHANGED << rvars, hvars, bvars, cvars, pvars, svars >>

\* URLFrontier.get: while not self._queue, with the queue empty: wait()
\* releases the condition's lock and blocks.
GetWaitStep(c) ==
    /\ pc[c] = "get_check"
    /\ queue = << >>
    /\ cond_lock' = Free
    /\ waiters' = Append(waiters, c)
    /\ pc' = [pc EXCEPT ![c] = "get_waiting"]
    /\ UNCHANGED << queue, seen_bits, seen_count, in_progress, completed_count,
                    error_count, lock, clock, local, held, added, dispatched, requeued >>

GetWait(c) ==
    GetWaitStep(c) /\ UNCHANGED << rvars, hvars, bvars, cvars, pvars, svars >>

\* URLFrontier.get: the loop ends with the queue not empty; the condition's
\* lock is released and the caller goes on to async with self._lock.
GetReadyStep(c) ==
    /\ pc[c] = "get_check"
    /\ queue # << >>
    /\ cond_lock' = Free
    /\ pc' = [pc EXCEPT ![c] = "get_lock"]
    /\ UNCHANGED << queue, seen_bits, seen_count, in_progress, completed_count,
                    error_count, lock, waiters, clock, local, held, added, dispatched,
                    requeued >>

GetReady(c) ==
    GetReadyStep(c) /\ UNCHANGED << rvars, hvars, bvars, cvars, pvars, svars >>

\* URLFrontier.get: a notified waiter takes the condition's lock again and
\* tests the queue again.
GetWokenStep(c) ==
    /\ pc[c] = "get_woken"
    /\ cond_lock = Free
    /\ cond_lock' = c
    /\ pc' = [pc EXCEPT ![c] = "get_check"]
    /\ UNCHANGED << queue, seen_bits, seen_count, in_progress, completed_count,
                    error_count, lock, waiters, clock, local, held, added, dispatched,
                    requeued >>

GetWoken(c) ==
    GetWokenStep(c) /\ UNCHANGED << rvars, hvars, bvars, cvars, pvars, svars >>

\* URLFrontier.get: asyncio.TimeoutError while waiting, get returns None.
GetTimeoutStep(c) ==
    /\ pc[c] = "get_waiting"
    /\ local[c].timeout
    /\ cond_lock = Free
    /\ waiters' = SelectSeq(waiters, LAMBDA w : w # c)
    /\ pc' = [pc EXCEPT ![c] = "idle"]
    /\ local' = [local EXCEPT ![c] = NoLocal]
    /\ UNCHANGED << queue, seen_bits, seen_count, in_progress, completed_count,
                    error_count, lock, cond_lock, clock, held, added, dispatched,
                    requeued >>

GetTimeout(c) ==
    GetTimeoutStep(c) /\ UNCHANGED << rvars, hvars, bvars, cvars, pvars, svars >>

\* URLFrontier.get, under _lock: if not self._queue: return None.
GetEmptyStep(c) ==
    /\ pc[c] = "get_lock"
    /\ lock = Free
    /\ queue = << >>
    /\ pc' = [pc EXCEPT ![c] = "idle"]
    /\ local' = [local EXCEPT ![c] = NoLocal]
    /\ UNCHANGED << queue, seen_bits, seen_count, in_progress, completed_count,
                    error_count, lock, cond_lock, waiters, clock, held, added,
                    dispatched, requeued >>

GetEmpty(c) ==
    GetEmptyStep(c) /\ UNCHANGED << rvars, hvars, bvars, cvars, pvars, svars >>

\* dispatched after get returned url
CountDispatch(d, url) == [d EXCEPT ![url] = @ + 1]

\* URLFrontier.get, under _lock: heappop and the insertion into _in_progress.
GetPopStep(c) ==
    /\ pc[c] = "get_lock"
    /\ lock = Free
    /\ queue # << >>
    /\ LET item == heappop_item(queue)
       IN  /\ queue' = heappop_rest(queue)
           /\ in_progress' = in_progress \cup {item.url}
           /\ held' = [held EXCEPT ![c] = item]
           /\ dispatched' = CountDispatch(dispatched, item.url)
    /\ pc' = [pc EXCEPT ![c] = "idle"]
    /\ local' = [local EXCEPT ![c] = NoLocal]
    /\ UNCHANGED << seen_bits, seen_count, completed_count, error_count, lock,
                    cond_lock, waiters, clock, added, requeued >>

GetPop(c) ==
    GetPopStep(c) /\ UNCHANGED << rvars, hvars, bvars, cvars, pvars, svars >>

\* A faulty discard: the element stays in the set.
Discard_Keep(s, x) == s

\* set.discard
Discard(s, x) == s \ {x}

\* URLFrontier.complete: the completed counter after complete(url, success).
CompletedAfter(count, success) == IF success THEN count + 1 ELSE count

\* A faulty complete: the error is counted for a success as well.
ErrorsAfter_Always(count, success) == count + 1

\* URLFrontier.complete: the error counter after complete(url, success).
ErrorsAfter(count, success) == IF success THEN count ELSE count + 1

\* URLFrontier.complete(url, success), called by the caller that got the item.
CompleteStep(c, success) ==
    /\ pc[c] = "idle"
    /\ held[c] # NoItem
    /\ lock = Free
    /\ in_progress' = Discard(in_progress, held[c].url)
    /\ completed_count' = CompletedAfter(completed_count, success)
    /\ error_count' = ErrorsAfter(error_count, success)
    /\ held' = [held EXCEPT ![c] = NoItem]
    /\ UNCHANGED << queue, seen_bits, seen_count, lock, cond_lock, waiters, clock,
                    pc, local, added, dispatched, requeued >>

Complete(c, success) ==
    CompleteStep(c, success) /\ UNCHANGED << rvars, hvars, bvars, cvars, pvars, svars >>

\* A faulty test: the retries are taken as used up one retry early.
RetriesExhausted_Early(item, max_retries) == item.retry_count + 1 >= max_retries

\* URLFrontier.retry: if item.retry_count >= max_retries
RetriesExhausted(item, max_retries) == item.retry_count >= max_retries

\* A faulty penalty: the copy keeps the priority of the item.
RetryPriority_Same(priority) == IF priority < LOW THEN priority ELSE LOW

\* URLFrontier.retry: min(item.priority + 1, Priority.LOW)
RetryPriority(priority) == IF priority + 1 < LOW THEN priority + 1 ELSE LOW

\* URLFrontier.retry: the retries are used up; the error is counted and retry
\* returns False.
RetryGiveUp(c) ==
    /\ pc[c] = "idle"
    /\ held[c] # NoItem
    /\ lock = Free
    /\ RetriesExhausted(held[c], MaxRetries)
    /\ in_progress' = Discard(in_progress, held[c].url)
    /\ error_count' = error_count + 1
    /\ held' = [held EXCEPT ![c] = NoItem]
    /\ UNCHANGED << rvars, hvars, bvars, cvars, pvars, svars, queue, seen_bits, seen_count, completed_count, lock, cond_lock,
                    waiters, clock, pc, local, added, dispatched, requeued >>

\* URLFrontier.retry: a copy of the item is pushed, with the next retry count
\* and the penalised priority; retry returns True.  No waiter is notified.
RetryPush(c) ==
    /\ pc[c] = "idle"
    /\ held[c] # NoItem
    /\ lock = Free
    /\ ~RetriesExhausted(held[c], MaxRetries)
    /\ clock < MaxClock
    /\ in_progress' = Discard(in_progress, held[c].url)
    /\ clock' = clock + 1
    /\ queue' = heappush(queue,
                    URLItem(RetryPriority(held[c].priority), clock', held[c].url,
                            held[c].depth, held[c].parent_url, held[c].retry_count + 1))
    /\ held' = [held EXCEPT ![c] = NoItem]
    /\ requeued' = [requeued EXCEPT ![held[c].url] = @ + 1]
    /\ UNCHANGED << rvars, hvars, bvars, cvars, pvars, svars, seen_bits, seen_count, completed_count, error_count, lock,
                    cond_lock, waiters, pc, local, added, dispatched >>

FrontierNext ==
    \/ \E c \in Callers, url \in RawURLs : AddInvalid(c, url, None)
    \/ \E c \in Callers, url \in RawURLs : AddSeen(c, url, None)
    \/ \E c \in Callers, url \in RawURLs, priority \in Priorities :
          AddPush(c, url, priority, 0, None)
    \/ \E c \in Callers : AddNotify(c)
    \/ \E c \in Callers, timeout \in BOOLEAN : GetStart(c, timeout)
    \/ \E c \in Callers : GetWait(c)
    \/ \E c \in Callers : GetReady(c)
    \/ \E c \in Callers : GetWoken(c)
    \/ \E c \in Callers : GetTimeout(c)
    \/ \E c \in Callers : GetEmpty(c)
    \/ \E c \in Callers : GetPop(c)
    \/ \E c \in Callers, success \in BOOLEAN : Complete(c, success)
    \/ \E c \in Callers : RetryGiveUp(c)
    \/ \E c \in Callers : RetryPush(c)

(***************************************************************************)
(* RateLimiter                                                             *)
(***************************************************************************)

\* Time is counted in ticks.  MinInterval is 1.0 / requests_per_second, the
\* interval the limiter starts with.
MinInterval == 2

\* The value of time.time() when the limiter is created: the epoch is far
\* enough in the past that a host never requested is granted at once, also
\* after update_delay has raised the interval.
Epoch == MinInterval + 2

\* The number of intervals the model runs for.
Rounds == 3

\* The last tick of the model.
MaxTime == Epoch + Rounds * MinInterval

\* The hosts of the model: h.io, the host of the URLs, and g.io.
h_io == << "h", ".", "i", "o" >>

g_io == << "g", ".", "i", "o" >>

Hosts == {h_io, g_io}

\* The Crawl-delay values robots.txt may hand to update_delay, in ticks.
Delays == {1, MinInterval + 1}

NoAcquire == [domain |-> None, interval |-> 0, wake |-> 0]

\* RateLimiter.__init__
RateInit ==
    /\ min_interval = MinInterval
    /\ last_request = [h \in Hosts |-> 0]
    /\ rl_lock = Free
    /\ now = Epoch
    /\ rpc = [c \in Callers |-> "idle"]
    /\ rlocal = [c \in Callers |-> NoAcquire]
    /\ grants = [h \in Hosts |-> 0]
    /\ first_grant = [h \in Hosts |-> 0]

\* A faulty wait: the operands of the subtraction are swapped.
WaitTime_Reversed(interval, t, last) == (t - last) - interval

\* RateLimiter.acquire: wait_time = self.min_interval - (now - last)
WaitTime(interval, t, last) == interval - (t - last)

\* RateLimiter.acquire: self._last_request[domain] = time.time(), with the
\* history of the grants.
Record(domain) ==
    /\ last_request' = [last_request EXCEPT ![domain] = now]
    /\ grants' = [grants EXCEPT ![domain] = @ + 1]
    /\ first_grant' = IF grants[domain] = 0
                      THEN [first_grant EXCEPT ![domain] = now]
                      ELSE first_grant

\* RateLimiter.acquire: the interval a call for the domain waits out is
\* self.min_interval, the one interval of the limiter.
IntervalFor(domain) == min_interval

\* RateLimiter.acquire, under _lock, with wait_time <= 0: the time is recorded
\* at once.
AcquireNowStep(c, domain) ==
    /\ rpc[c] = "idle"
    /\ rl_lock = Free
    /\ WaitTime(IntervalFor(domain), now, last_request[domain]) <= 0
    /\ Record(domain)
    /\ UNCHANGED << min_interval, rl_lock, now, rpc, rlocal >>

\* acquire called on its own: nothing else changes.
AcquireNow(c, domain) ==
    AcquireNowStep(c, domain) /\ UNCHANGED << fvars, hvars, bvars, cvars, pvars, svars >>

\* RateLimiter.acquire, under _lock, with wait_time > 0: the caller sleeps,
\* holding _lock.
AcquireSleepStep(c, domain) ==
    /\ rpc[c] = "idle"
    /\ rl_lock = Free
    /\ WaitTime(IntervalFor(domain), now, last_request[domain]) > 0
    /\ rl_lock' = c
    /\ rpc' = [rpc EXCEPT ![c] = "sleeping"]
    /\ rlocal' = [rlocal EXCEPT ![c] =
                     [domain |-> domain, interval |-> IntervalFor(domain),
                      wake |-> now + WaitTime(IntervalFor(domain), now, last_request[domain])]]
    /\ UNCHANGED << min_interval, last_request, now, grants, first_grant >>

AcquireSleep(c, domain) ==
    AcquireSleepStep(c, domain) /\ UNCHANGED << fvars, hvars, bvars, cvars, pvars, svars >>

\* RateLimiter.acquire: asyncio.sleep(wait_time) is over (not before the
\* wake-up time, possibly after it); the time is recorded and _lock released.
AcquireWakeStep(c) ==
    /\ rpc[c] = "sleeping"
    /\ now >= rlocal[c].wake
    /\ Record(rlocal[c].domain)
    /\ rl_lock' = Free
    /\ rpc' = [rpc EXCEPT ![c] = "idle"]
    /\ rlocal' = [rlocal EXCEPT ![c] = NoAcquire]
    /\ UNCHANGED << min_interval, now >>

AcquireWake(c) ==
    AcquireWakeStep(c) /\ UNCHANGED << fvars, hvars, bvars, cvars, pvars, svars >>

\* max(self.min_interval, delay)
RaisedInterval(interval, delay) == IF delay > interval THEN delay ELSE interval

\* RateLimiter.update_delay(domain, delay): not under _lock.
UpdateDelay(domain, delay) ==
    /\ min_interval' = RaisedInterval(min_interval, delay)
    /\ UNCHANGED << fvars, hvars, bvars, cvars, pvars, svars, last_request, rl_lock, now, rpc, rlocal, grants, first_grant >>

\* Time passes.
Tick ==
    /\ now < MaxTime
    /\ now' = now + 1
    /\ UNCHANGED << fvars, hvars, bvars, cvars, pvars, svars, min_interval, last_request, rl_lock, rpc, rlocal, grants,
                    first_grant >>

RateNext ==
    \/ \E c \in Callers, domain \in Hosts : AcquireNow(c, domain)
    \/ \E c \in Callers, domain \in Hosts : AcquireSleep(c, domain)
    \/ \E c \in Callers : AcquireWake(c)
    \/ \E domain \in Hosts, delay \in Delays : UpdateDelay(domain, delay)
    \/ Tick

(***************************************************************************)
(* HTTPFetcher.fetch                                                       *)
(***************************************************************************)

\* config.max_retries of the model (the default is 3).
ConfigMaxRetries == 2

\* config.delay_min and config.delay_max of the model, in ticks.
DelayMin == 1

DelayMax == 2

\* StealthManager.get_delay(delay_min, delay_max): a random delay, clamped to
\* the range.  The occasional reading time on top of it is left out.
StealthDelays == DelayMin..DelayMax

\* One second in ticks: the limiter of the model is configured with
\* requests_per_second = 1 / MinInterval.
TicksPerSecond == 1

\* 2 ** retry_count seconds, in ticks
RECURSIVE Backoff(_)
Backoff(retry_count) ==
    IF retry_count = 0 THEN TicksPerSecond ELSE 2 * Backoff(retry_count - 1)

\* The exceptions a request can end with.  OtherError stands for every
\* Exception that is neither a timeout nor an aiohttp.ClientError.
NoExc == "none"

TimeoutError == "TimeoutError"

ClientError == "ClientError"

OtherError == "Exception"

Exceptions == {TimeoutError, ClientError, OtherError}

\* What the server and the network do to one GET: the exception session.get
\* raises (or none), the status, the Content-Length header (absent, above
\* max_content_length, or not a number), the kind of Content-Type and the
\* exception response.text() raises (or none).  The body is read only when
\* the length passes, and only for text.
Outcomes ==
    [get_exc : Exceptions, status : {0}, length : {"absent"}, ctype : {"other"},
     read_exc : {NoExc}]
    \cup
    [get_exc : {NoExc}, status : {200, 404}, length : {"large", "malformed"},
     ctype : {"html"}, read_exc : {NoExc}]
    \cup
    [get_exc : {NoExc}, status : {200, 404}, length : {"absent"},
     ctype : {"html", "text"}, read_exc : {NoExc} \cup Exceptions]
    \cup
    [get_exc : {NoExc}, status : {200, 404}, length : {"absent"},
     ctype : {"other"}, read_exc : {NoExc}]

\* FetchResult.error of a result without an error
NoError == "none"

\* FetchResult: the fields success reads.
FetchResult(status, error) == [status |-> status, error |-> error]

NoResult == FetchResult(-1, NoError)

\* FetchResult.success
Success(result) == result.status >= 200 /\ result.status < 400 /\ result.error = NoError

\* What the body of the try block of fetch does with one outcome: it returns
\* a result or it raises.
TryBody(o) ==
    IF o.get_exc # NoExc
    THEN [raised |-> o.get_exc, result |-> NoResult]
    ELSE IF o.length = "malformed"
    THEN [raised |-> OtherError, result |-> NoResult]
    ELSE IF o.length = "large"
    THEN [raised |-> NoExc, result |-> FetchResult(o.status, "Content too large")]
    ELSE IF o.ctype = "html"
    THEN IF o.read_exc # NoExc
         THEN [raised |-> NoExc, result |-> FetchResult(o.status, "Failed to read content")]
         ELSE [raised |-> NoExc, result |-> FetchResult(o.status, NoError)]
    ELSE IF o.ctype = "text" /\ o.read_exc # NoExc
    THEN [raised |-> o.read_exc, result |-> NoResult]
    ELSE [raised |-> NoExc, result |-> FetchResult(o.status, NoError)]

\* A faulty test: one retry too many.
MayRetry_Inclusive(retry_count, max_retries) == retry_count <= max_retries

\* if retry_count < self.config.max_retries
MayRetry(retry_count, max_retries) == retry_count < max_retries

\* Faulty except clauses: the last clause, except Exception, is missing.
ExceptClauses_NoCatchAll(body, retry_count, max_retries) ==
    IF body.raised = NoExc
    THEN [kind |-> "return", result |-> body.result]
    ELSE IF body.raised = TimeoutError
    THEN IF MayRetry(retry_count, max_retries)
         THEN [kind |-> "retry", result |-> NoResult]
         ELSE [kind |-> "return", result |-> FetchResult(0, "Request timeout")]
    ELSE IF body.raised = ClientError
    THEN IF MayRetry(retry_count, max_retries)
         THEN [kind |-> "retry", result |-> NoResult]
         ELSE [kind |-> "return", result |-> FetchResult(0, "Client error")]
    ELSE [kind |-> "raise", result |-> NoResult]

\* The except clauses of fetch on what the try block did: the call returns a
\* result, retries, or lets the exception through.
ExceptClauses(body, retry_count, max_retries) ==
    IF body.raised = NoExc
    THEN [kind |-> "return", result |-> body.result]
    ELSE IF body.raised = TimeoutError
    THEN IF MayRetry(retry_count, max_retries)
         THEN [kind |-> "retry", result |-> NoResult]
         ELSE [kind |-> "return", result |-> FetchResult(0, "Request timeout")]
    ELSE IF body.raised = ClientError
    THEN IF MayRetry(retry_count, max_retries)
         THEN [kind |-> "retry", result |-> NoResult]
         ELSE [kind |-> "return", result |-> FetchResult(0, "Client error")]
    ELSE IF body.raised = OtherError
    THEN [kind |-> "return", result |-> FetchResult(0, "Unexpected error")]
    ELSE [kind |-> "raise", result |-> NoResult]

\* The calls start within StartWindow ticks; the model runs until the longest
\* call is over: each attempt waits for the limiter (at most for a sleeping
\* caller and then for its own interval) and for the delay.
StartWindow == 0

FetchMaxTime ==
    Epoch + StartWindow + (ConfigMaxRetries + 1) * (2 * MinInterval + DelayMax)
        + Backoff(ConfigMaxRetries)

\* The failure of one request, from what the server and the network did: the
\* exception raised while requesting or reading, an oversized body, an
\* unreadable HTML body, or none.
Failure(o) ==
    IF o.get_exc # NoExc THEN o.get_exc
    ELSE IF o.length = "malformed" THEN OtherError
    ELSE IF o.length = "large" THEN "oversized"
    ELSE IF o.ctype = "html" /\ o.read_exc # NoExc THEN "unreadable"
    ELSE IF o.ctype = "text" THEN o.read_exc
    ELSE NoExc

\* The call of one caller; failure is the history of its last request.
NoFetch ==
    [stage |-> "idle", domain |-> None, retry_count |-> 0, wake |-> 0,
     failure |-> NoExc, result |-> NoResult]

FetchInit ==
    /\ fetch = [c \in Callers |-> NoFetch]
    /\ last_get = [h \in Hosts |-> -1]
    /\ attempts = [c \in Callers |-> 0]
    /\ backoffs = [c \in Callers |-> << >>]

\* fetch(url) is called, with get_domain(url) = domain; each caller makes one
\* call.
FetchCall(c, domain) ==
    /\ fetch[c].stage = "idle"
    /\ now <= Epoch + StartWindow
    /\ fetch' = [fetch EXCEPT ![c] = [NoFetch EXCEPT !.stage = "acquire", !.domain = domain]]
    /\ UNCHANGED << fvars, rvars, bvars, cvars, pvars, svars, last_get, attempts, backoffs >>

\* fetch: rate_limiter.acquire(domain) grants at once; get_delay draws the
\* delay and asyncio.sleep(delay) starts.
FetchAcquireNow(c, delay) ==
    /\ fetch[c].stage = "acquire"
    /\ AcquireNowStep(c, fetch[c].domain)
    /\ fetch' = [fetch EXCEPT ![c].stage = "delay", ![c].wake = now + delay]
    /\ UNCHANGED << fvars, bvars, cvars, pvars, svars, last_get, attempts, backoffs >>

\* fetch: rate_limiter.acquire(domain) has to wait.
FetchAcquireSleep(c) ==
    /\ fetch[c].stage = "acquire"
    /\ AcquireSleepStep(c, fetch[c].domain)
    /\ UNCHANGED << fvars, hvars, bvars, cvars, pvars, svars >>

\* fetch: rate_limiter.acquire(domain) grants after its sleep; get_delay draws
\* the delay and asyncio.sleep(delay) starts.
FetchAcquireWake(c, delay) ==
    /\ fetch[c].stage = "acquire"
    /\ AcquireWakeStep(c)
    /\ fetch' = [fetch EXCEPT ![c].stage = "delay", ![c].wake = now + delay]
    /\ UNCHANGED << fvars, bvars, cvars, pvars, svars, last_get, attempts, backoffs >>

\* fetch: the delay is over and session.get starts; the request ends with the
\* outcome o and the call returns, backs off or raises.  The time the request
\* takes is not modelled.
FetchGet(c, o) ==
    /\ fetch[c].stage = "delay"
    /\ now >= fetch[c].wake
    /\ last_get' = [last_get EXCEPT ![fetch[c].domain] = now]
    /\ attempts' = [attempts EXCEPT ![c] = @ + 1]
    /\ LET handled == ExceptClauses(TryBody(o), fetch[c].retry_count, ConfigMaxRetries)
       IN  IF handled.kind = "retry"
           THEN /\ fetch' = [fetch EXCEPT ![c].stage = "backoff", ![c].failure = Failure(o),
                                          ![c].wake = now + Backoff(fetch[c].retry_count)]
                /\ backoffs' = [backoffs EXCEPT ![c] = Append(@, Backoff(fetch[c].retry_count))]
           ELSE /\ fetch' = [fetch EXCEPT ![c].stage =
                                              IF handled.kind = "return" THEN "returned"
                                                                         ELSE "raised",
                                          ![c].failure = Failure(o),
                                          ![c].result = handled.result]
                /\ backoffs' = backoffs
    /\ UNCHANGED << fvars, rvars, bvars, cvars, pvars, svars >>

\* fetch: the back-off is over; return await self.fetch(url, referer,
\* retry_count + 1), whose result is the result of the call.
FetchRetry(c) ==
    /\ fetch[c].stage = "backoff"
    /\ now >= fetch[c].wake
    /\ fetch' = [fetch EXCEPT ![c].stage = "acquire", ![c].retry_count = @ + 1]
    /\ UNCHANGED << fvars, rvars, bvars, cvars, pvars, svars, last_get, attempts, backoffs >>

\* A caller that can take a step now.
Runnable(c) ==
    \/ fetch[c].stage = "acquire" /\ rpc[c] = "idle" /\ rl_lock = Free
    \/ fetch[c].stage = "acquire" /\ rpc[c] = "sleeping" /\ now >= rlocal[c].wake
    \/ fetch[c].stage \in {"delay", "backoff"} /\ now >= fetch[c].wake

\* Time passes while every caller sleeps or waits: the steps of the callers
\* take no time and the event loop wakes a sleeper when it is due.  Once the
\* calls are over and no call can start, the time is of no interest.
FetchTick ==
    /\ now < FetchMaxTime
    /\ \A c \in Callers : ~Runnable(c)
    /\ \/ now < Epoch + StartWindow
       \/ \E c \in Callers : fetch[c].stage \in {"acquire", "delay", "backoff"}
    /\ now' = now + 1
    /\ UNCHANGED << fvars, hvars, bvars, cvars, pvars, svars, min_interval, last_request, rl_lock, rpc, rlocal, grants,
                    first_grant >>

FetchNext ==
    \/ \E c \in Callers, domain \in Hosts : FetchCall(c, domain)
    \/ \E c \in Callers, delay \in StealthDelays : FetchAcquireNow(c, delay)
    \/ \E c \in Callers : FetchAcquireSleep(c)
    \/ \E c \in Callers, delay \in StealthDelays : FetchAcquireWake(c, delay)
    \/ \E c \in Callers, o \in Outcomes : FetchGet(c, o)
    \/ \E c \in Callers : FetchRetry(c)
    \/ FetchTick

(***************************************************************************)
(* RobotsParser: rules and is_allowed                                      *)
(***************************************************************************)

\* RobotsRules.crawl_delay = None
NoDelay == -1

\* RobotsRules: the lists of Allow and Disallow patterns, the crawl delay and
\* the sitemaps.
RobotsRules(allowed, disallowed, crawl_delay) ==
    [allowed |-> allowed, disallowed |-> disallowed, crawl_delay |-> crawl_delay,
     sitemaps |-> << >>]

\* RobotsRules(user_agent=...): no rule at all
EmptyRules == RobotsRules(<< >>, << >>, NoDelay)

\* _path_matches: the regular expression built from a pattern, one element
\* for each character: "*" becomes ".*", a "$" in the last place becomes the
\* end anchor, every other character is escaped and stands for itself.
Regex(pattern) ==
    [i \in 1..Len(pattern) |->
        IF pattern[i] = "*" THEN [kind |-> "any", char |-> ""]
        ELSE IF pattern[i] = "$" /\ i = Len(pattern) THEN [kind |-> "end", char |-> ""]
        ELSE [kind |-> "char", char |-> pattern[i]]]

\* re.match(regex, s): the expression matches a prefix of s.
RECURSIVE re_match(_, _)
re_match(regex, str) ==
    IF regex = << >> THEN TRUE
    ELSE IF regex[1].kind = "any"
    THEN \E k \in 0..Len(str) : re_match(Tail(regex), Drop(str, k))
    ELSE IF regex[1].kind = "end"
    THEN str = << >> /\ re_match(Tail(regex), str)
    ELSE str # << >> /\ str[1] = regex[1].char /\ re_match(Tail(regex), Tail(str))

\* RobotsParser._path_matches(path, pattern)
path_matches(p, pattern) == re_match(Regex(pattern), p)

\* is_allowed: max(match, len(pattern)) over the patterns that match the path
RECURSIVE LongestMatch(_, _, _)
LongestMatch(patterns, p, match) ==
    IF patterns = << >> THEN match
    ELSE LongestMatch(Tail(patterns), p,
                      IF path_matches(p, patterns[1]) /\ Len(patterns[1]) > match
                      THEN Len(patterns[1]) ELSE match)

\* A faulty comparison: a tie goes to Disallow.
AllowWins_Strict(allow_match, disallow_match) == allow_match > disallow_match

\* is_allowed: if allow_match >= disallow_match
AllowWins(allow_match, disallow_match) == allow_match >= disallow_match

\* RobotsParser.is_allowed(rules, path)
is_allowed(r, p) ==
    IF r.allowed = << >> /\ r.disallowed = << >> THEN TRUE
    ELSE LET allow_match == LongestMatch(r.allowed, p, -1)
             disallow_match == LongestMatch(r.disallowed, p, -1)
         IN  IF AllowWins(allow_match, disallow_match) THEN TRUE
             ELSE disallow_match = -1

\* The patterns of the rule sets of the model: /p, /p/q, /e$, /*.f, /p*, /
Patterns ==
    { << "/", "p" >>, << "/", "p", "/", "q" >>, << "/", "e", "$" >>,
      << "/", "*", ".", "f" >>, << "/", "p", "*" >>, << "/" >> }

\* The paths asked about: /, /p, /p/q, /pq, /e, /e/m, /d.f, /a/d.f, /d.g
Paths ==
    { << "/" >>, << "/", "p" >>, << "/", "p", "/", "q" >>, << "/", "p", "q" >>,
      << "/", "e" >>, << "/", "e", "/", "m" >>, << "/", "d", ".", "f" >>,
      << "/", "a", "/", "d", ".", "f" >>, << "/", "d", ".", "g" >> }

\* The longest list of Allow patterns, and of Disallow patterns, of a rule set.
MaxPatterns == 2

\* The lists of at most n patterns
PatternLists(n) == UNION { [1..k -> Patterns] : k \in 0..n }

\* verdict holds no result, or the one result of the call
NoVerdict == << >>

\* A caller that has made no call of get_rules yet.
NoRobotsCall ==
    [stage |-> "idle", domain |-> None, failed |-> FALSE, result |-> EmptyRules, calls |-> 0]

\* _cache holds no rules, or the rules, of a domain
NotCached == << >>

RobotsInit ==
    /\ robots_txt = << >>
    /\ user_agent = << "*" >>
    /\ parsed = FALSE
    /\ rules = EmptyRules
    /\ path = << >>
    /\ verdict = NoVerdict
    /\ cache = [h \in Hosts |-> NotCached]
    /\ rcall = [c \in Callers |-> NoRobotsCall]
    /\ fetched = [h \in Hosts |-> 0]

\* The rule sets is_allowed is asked about.
AllowedInit ==
    /\ robots_txt = << >>
    /\ user_agent = << "*" >>
    /\ parsed = FALSE
    /\ rules \in { RobotsRules(a, d, NoDelay) :
                      a \in PatternLists(MaxPatterns), d \in PatternLists(MaxPatterns) }
    /\ path = << >>
    /\ verdict = NoVerdict
    /\ cache = [h \in Hosts |-> NotCached]
    /\ rcall = [c \in Callers |-> NoRobotsCall]
    /\ fetched = [h \in Hosts |-> 0]

\* is_allowed(rules, p) is called.
IsAllowedCall(p) ==
    /\ path' = p
    /\ verdict' = << is_allowed(rules, p) >>
    /\ UNCHANGED << fvars, rvars, hvars, cvars, pvars, svars, robots_txt, user_agent, parsed, rules, cache, rcall,
                    fetched >>

AllowedNext == \E p \in Paths : IsAllowedCall(p)

(***************************************************************************)
(* RobotsParser.parse                                                      *)
(***************************************************************************)

\* The characters str.strip() removes, of those the model uses
Whitespace == {" "}

\* str.strip()
RECURSIVE Strip(_)
Strip(str) ==
    IF str = << >> THEN str
    ELSE IF str[1] \in Whitespace THEN Strip(Tail(str))
    ELSE IF str[Len(str)] \in Whitespace THEN Strip(Take(str, Len(str) - 1))
    ELSE str

\* str.lower() on text with characters outside the table of the URLs ("*",
\* " "): these have no case.
LowerText(str) ==
    [i \in 1..Len(str) |->
        IF \E k \in 1..Len(Ascii) : Ascii[k] = str[i] THEN LowerChar(str[i]) ELSE str[i]]

\* pattern in agent
Contains(str, sub) == \E k \in 0..Len(str) : StartsWith(Drop(str, k), sub)

\* RobotsParser._matches_user_agent(pattern), for the configured agent
matches_user_agent(pattern, agent) ==
    LET pat == LowerText(pattern)
        us == LowerText(agent)
    IN  IF pat = << "*" >> THEN TRUE
        ELSE StartsWith(us, pat) \/ Contains(us, pat)

\* float(value) of a string of digits, or NoDelay for the ValueError of
\* anything else (the delay is then left as it is).
RECURSIVE DigitsValue(_, _)
DigitsValue(str, acc) ==
    IF str = << >> THEN acc
    ELSE DigitsValue(Tail(str), 10 * acc + (Ord(str[1]) - OrdZero))

ParseFloat(value) ==
    IF value # << >> /\ \A i \in 1..Len(value) : value[i] \in {"0", "1", "2", "3", "4", "5", "6", "7", "8", "9"}
    THEN DigitsValue(value, 0)
    ELSE NoDelay

s_user_agent == << "u", "s", "e", "r", "-", "a", "g", "e", "n", "t" >>

s_disallow == << "d", "i", "s", "a", "l", "l", "o", "w" >>

s_allow == << "a", "l", "l", "o", "w" >>

s_crawl_delay == << "c", "r", "a", "w", "l", "-", "d", "e", "l", "a", "y" >>

s_sitemap == << "s", "i", "t", "e", "m", "a", "p" >>

\* parse, one line: the comment is cut and the line stripped; an empty line
\* and a line without ":" are skipped; the directive is lower-cased.
Directive(line) ==
    LET text == Strip(Split(line, "#")[1])
        colon == FindAny(text, {":"})
    IN  IF text = << >> \/ colon = Len(text)
        THEN [skip |-> TRUE, directive |-> << >>, value |-> << >>]
        ELSE [skip |-> FALSE, directive |-> LowerText(Strip(Take(text, colon))),
              value |-> Strip(Drop(text, colon + 1))]

\* parse, the body of the loop: the rules so far and applies_to_us, after the
\* line.  current_agents is written and never read; it is left out.  The
\* sitemaps of the model are absolute URLs, which urljoin leaves as they are.
ParseLine(st, line, agent) ==
    LET d == Directive(line)
    IN  IF d.skip THEN st
        ELSE IF d.directive = s_user_agent
        THEN [st EXCEPT !.applies_to_us = matches_user_agent(d.value, agent)]
        ELSE IF d.directive = s_disallow /\ st.applies_to_us
        THEN IF d.value # << >>
             THEN [st EXCEPT !.rules.disallowed = Append(@, d.value)]
             ELSE st
        ELSE IF d.directive = s_allow /\ st.applies_to_us
        THEN IF d.value # << >>
             THEN [st EXCEPT !.rules.allowed = Append(@, d.value)]
             ELSE st
        ELSE IF d.directive = s_crawl_delay /\ st.applies_to_us
        THEN IF ParseFloat(d.value) # NoDelay
             THEN [st EXCEPT !.rules.crawl_delay = ParseFloat(d.value)]
             ELSE st
        ELSE IF d.directive = s_sitemap
        THEN [st EXCEPT !.rules.sitemaps = Append(@, d.value)]
        ELSE st

RECURSIVE ParseLines(_, _, _)
ParseLines(lines, st, agent) ==
    IF lines = << >> THEN st
    ELSE ParseLines(Tail(lines), ParseLine(st, lines[1], agent), agent)

\* RobotsParser.parse(content, base_url), for the configured agent
parse(content, agent) ==
    ParseLines(Split(content, "\n"), [rules |-> EmptyRules, applies_to_us |-> FALSE],
               agent).rules

\* The lines of the robots.txt files of the model.
l_agent_star == << "U", "s", "e", "r", "-", "a", "g", "e", "n", "t", ":", " ", "*" >>

l_agent_ab == << "U", "s", "e", "r", "-", "a", "g", "e", "n", "t", ":", " ", "a", "b" >>

l_agent_cd == << "u", "s", "e", "r", "-", "a", "g", "e", "n", "t", ":", "c", "d" >>

l_disallow_p == << "D", "i", "s", "a", "l", "l", "o", "w", ":", " ", "/", "p" >>

l_allow_pq == << "A", "l", "l", "o", "w", ":", " ", "/", "p", "/", "q", " ", "#", "q" >>

l_crawl_delay == << "C", "r", "a", "w", "l", "-", "d", "e", "l", "a", "y", ":", " ", "3" >>

RobotsLines == {l_agent_star, l_agent_ab, l_agent_cd, l_disallow_p, l_allow_pq, l_crawl_delay}

\* The longest robots.txt of the model, in lines.
MaxLines == 4

\* The robots.txt files: up to MaxLines lines, joined by newlines.
RobotsFiles ==
    { Join(f, "\n") : f \in UNION { [1..k -> RobotsLines] : k \in 0..MaxLines } }

\* The configured agents: "*", the default, and "ab".
Agents == { << "*" >>, << "a", "b" >> }

\* A robots.txt and an agent to parse it for.
ParseInit ==
    /\ robots_txt \in RobotsFiles
    /\ user_agent \in Agents
    /\ parsed = FALSE
    /\ rules = EmptyRules
    /\ path = << >>
    /\ verdict = NoVerdict
    /\ cache = [h \in Hosts |-> NotCached]
    /\ rcall = [c \in Callers |-> NoRobotsCall]
    /\ fetched = [h \in Hosts |-> 0]

\* parse(robots_txt) is called.
ParseCall ==
    /\ ~parsed
    /\ parsed' = TRUE
    /\ rules' = parse(robots_txt, user_agent)
    /\ UNCHANGED << fvars, rvars, hvars, cvars, pvars, svars, robots_txt, user_agent, path, verdict, cache, rcall,
                    fetched >>

\* is_allowed is asked about the parsed rules.
ParsedAllowed(p) == parsed /\ verdict = NoVerdict /\ IsAllowedCall(p)

ParseNext ==
    \/ ParseCall
    \/ \E p \in Paths : ParsedAllowed(p)

(***************************************************************************)
(* RobotsManager.get_rules                                                 *)
(***************************************************************************)

\* The calls of get_rules each caller makes.
MaxCalls == 2

\* The robots.txt a host serves: Disallow /b for all agents.
l_disallow_b == << "D", "i", "s", "a", "l", "l", "o", "w", ":", " ", "/", "b" >>

ServedRobots == Join(<< l_agent_star, l_disallow_b >>, "\n")

\* What fetch_func does for the robots.txt URL: it raises, or returns a
\* status with a text or with None for the text (fetch_simple gives None when
\* the body was not read as text).
RobotsResponses ==
    [raised : {TRUE}, status : {0}, has_text : {FALSE}, text : {<< >>}]
    \cup
    [raised : {FALSE}, status : {0, 404}, has_text : {FALSE}, text : {<< >>}]
    \cup
    [raised : {FALSE}, status : {200, 404}, has_text : {TRUE}, text : {ServedRobots}]
    \cup
    [raised : {FALSE}, status : {200}, has_text : {FALSE}, text : {<< >>}]

\* get_rules: the fetch raised, the status is not 200, or parse raised (on a
\* text that is None): the except clause and the else branch give empty rules.
FetchFailed(response) ==
    response.raised \/ response.status # 200 \/ ~response.has_text

\* get_rules: the rules from the response
RulesFrom(response, agent) ==
    IF response.raised THEN EmptyRules
    ELSE IF response.status = 200
    THEN IF response.has_text THEN parse(response.text, agent) ELSE EmptyRules
    ELSE EmptyRules

\* A faulty store: empty rules are not cached.
Store_NotEmpty(c0, domain, r) ==
    IF r = EmptyRules THEN c0 ELSE [c0 EXCEPT ![domain] = << r >>]

\* get_rules: self._cache[domain] = rules
Store(c0, domain, r) == [c0 EXCEPT ![domain] = << r >>]

\* get_rules(domain) with the domain in _cache: the cached rules are returned.
\* _lock is held only between two awaits, never across one, so it is always
\* free when a caller asks for it and taking it is no step of its own.
GetRulesHitStep(c, domain) ==
    /\ rcall[c].stage = "idle"
    /\ cache[domain] # NotCached
    /\ rcall' = [rcall EXCEPT ![c] = [stage |-> "returned", domain |-> domain,
                                      failed |-> FALSE, result |-> cache[domain][1],
                                      calls |-> @.calls + 1]]
    /\ UNCHANGED << robots_txt, user_agent, parsed, rules, path, verdict,
                    cache, fetched >>

\* get_rules called on its own, within the calls of the model.
GetRulesHit(c, domain) ==
    /\ rcall[c].calls < MaxCalls
    /\ GetRulesHitStep(c, domain)
    /\ UNCHANGED << fvars, rvars, hvars, cvars, pvars, svars >>

\* get_rules(domain) with the domain not in _cache: fetch_func is called for
\* https://{domain}/robots.txt and the caller waits for it.
GetRulesMissStep(c, domain) ==
    /\ rcall[c].stage = "idle"
    /\ cache[domain] = NotCached
    /\ rcall' = [rcall EXCEPT ![c] = [stage |-> "fetching", domain |-> domain,
                                      failed |-> FALSE, result |-> EmptyRules,
                                      calls |-> @.calls + 1]]
    /\ fetched' = [fetched EXCEPT ![domain] = @ + 1]
    /\ UNCHANGED << robots_txt, user_agent, parsed, rules, path, verdict,
                    cache >>

\* get_rules called on its own, within the calls of the model.
GetRulesMiss(c, domain) ==
    /\ rcall[c].calls < MaxCalls
    /\ GetRulesMissStep(c, domain)
    /\ UNCHANGED << fvars, rvars, hvars, cvars, pvars, svars >>

\* get_rules: fetch_func is over; the rules are parsed or empty, stored in
\* _cache and returned.
GetRulesFetchedStep(c, response) ==
    /\ rcall[c].stage = "fetching"
    /\ LET r == RulesFrom(response, user_agent)
       IN  /\ cache' = Store(cache, rcall[c].domain, r)
           /\ rcall' = [rcall EXCEPT ![c].stage = "returned", ![c].result = r,
                                     ![c].failed = FetchFailed(response)]
    /\ UNCHANGED << robots_txt, user_agent, parsed, rules, path, verdict,
                    fetched >>

GetRulesFetched(c, response) ==
    GetRulesFetchedStep(c, response) /\ UNCHANGED << fvars, rvars, hvars, cvars, pvars, svars >>

\* The caller goes on, and may call get_rules again.
GetRulesNextStep(c) ==
    /\ rcall[c].stage = "returned"
    /\ rcall[c].calls < MaxCalls
    /\ rcall' = [rcall EXCEPT ![c].stage = "idle"]
    /\ UNCHANGED << robots_txt, user_agent, parsed, rules, path, verdict,
                    cache, fetched >>

GetRulesNext(c) ==
    GetRulesNextStep(c) /\ UNCHANGED << fvars, rvars, hvars, cvars, pvars, svars >>

RobotsNext ==
    \/ \E c \in Callers, domain \in Hosts : GetRulesHit(c, domain)
    \/ \E c \in Callers, domain \in Hosts : GetRulesMiss(c, domain)
    \/ \E c \in Callers, response \in RobotsResponses : GetRulesFetched(c, response)
    \/ \E c \in Callers : GetRulesNext(c)

(***************************************************************************)
(* Crawler                                                                 *)
(***************************************************************************)

\* CrawlStats()
NoStats == [pages_crawled |-> 0, pages_failed |-> 0, pages_skipped |-> 0]

\* CrawlStats.total
Total(st) == st.pages_crawled + st.pages_failed + st.pages_skipped

\* The pages of the site h.io, as the URLs that name them in links and in the
\* sitemap (all in RawURLs).
page_a == s_https \o u_sep \o << "h", ".", "i", "o", "/", "a", "#", "f" >>

page_b == s_https \o u_sep \o << "h", ".", "i", "o", "/", "b", "?", "z", "&", "a" >>

page_c == s_https \o u_sep \o << "h", ".", "i", "o", ":", "4", "4", "3", "/", "c" >>

\* page_a in its canonical spelling
seed_a == s_https \o u_sep \o << "h", ".", "i", "o", "/", "a" >>

\* The seeds of the crawls of the model.
Seeds == {page_a, page_b, seed_a}

(***************************************************************************)
(* HTMLParser.get_crawlable_links                                          *)
(***************************************************************************)

\* The most links on a page of the model.
MaxLinks == 3

\* The URLs of the links of a page of h.io.
LinkURLs == {Normalized[page_a], Normalized[page_c], ext_x}

\* _extract_links: ExtractedLink of an anchor of a page of h.io; is_internal
\* compares the link's netloc with the base domain.
ExtractedLink(url, nofollow) ==
    [url |-> url, is_internal |-> get_domain(url) = h_io, nofollow |-> nofollow]

ExtractedLinks == {ExtractedLink(u, n) : u \in LinkURLs, n \in BOOLEAN}

\* Values of the robots meta tag; None is a page without one.
m_index == << "i", "n", "d", "e", "x" >>

m_nofollow == << "n", "o", "f", "o", "l", "l", "o", "w" >>

m_NoFollow == << "n", "o", "i", "n", "d", "e", "x", ",", "N", "o", "F", "o", "l", "l", "o", "w" >>

RobotsMetas == {None, m_index, m_nofollow, m_NoFollow}

\* The lists of at most n elements of s.
LinkLists(n) == UNION {[1..k -> ExtractedLinks] : k \in 0..n}

\* ParsedPage: metadata.robots and links
ParsedPages == [robots : RobotsMetas, links : LinkLists(MaxLinks)]

NoPage == [robots |-> None, links |-> << >>]

LinkOptions == [respect_nofollow : BOOLEAN, internal_only : BOOLEAN]

\* The defaults of get_crawlable_links.
NoOptions == [respect_nofollow |-> TRUE, internal_only |-> TRUE]

\* A faulty filter: external links are kept.
Skipped_KeepExternal(link, opts) == opts.respect_nofollow /\ link.nofollow

\* get_crawlable_links: the two 'continue' of the loop over parsed.links
Skipped(link, opts) ==
    \/ opts.respect_nofollow /\ link.nofollow
    \/ opts.internal_only /\ ~link.is_internal

\* get_crawlable_links: the loop over parsed.links, with urls and seen so far
RECURSIVE CollectLinks(_, _, _, _)
CollectLinks(links, opts, urls, seen) ==
    IF links = << >> THEN urls
    ELSE LET link == links[1]
         IN  IF Skipped(link, opts) \/ link.url \in seen
             THEN CollectLinks(Tail(links), opts, urls, seen)
             ELSE CollectLinks(Tail(links), opts, Append(urls, link.url),
                               seen \cup {link.url})

\* get_crawlable_links(parsed, respect_nofollow, internal_only)
get_crawlable_links(page, opts) ==
    IF page.robots # None /\ Contains(LowerText(page.robots), m_nofollow)
    THEN << >>
    ELSE CollectLinks(page.links, opts, << >>, {})

\* The page of a URL of the second site: / links to /at and /bx, /at links to
\* /c and to the other host, /bx links to /at.
SitePage(url) ==
    [robots |-> None,
     links |-> IF url = site_root
               THEN << ExtractedLink(site_a, FALSE), ExtractedLink(site_b, FALSE) >>
               ELSE IF url = site_a
               THEN << ExtractedLink(site_c, FALSE), ExtractedLink(ext_e, FALSE) >>
               ELSE << ExtractedLink(site_a, FALSE) >>]

\* get_crawlable_links on the page of a URL: the internal links of the page.
\* Links are absolute URLs, so the parent URL add_many passes on plays no part
\* in normalize_url; it is left out of the items.
SiteLinks(url) ==
    IF url = Normalized[page_a] THEN << page_b, page_c >>
    ELSE IF url = Normalized[page_b] THEN << page_a >>
    ELSE IF url \in {site_root, site_a, site_b}
    THEN get_crawlable_links(SitePage(url), NoOptions)
    ELSE << >>

\* The URLs the sitemap of the site lists.
SiteSitemap == << page_a, page_c >>

\* A sitemap of the site that lists a page of another host.
ForeignSitemap == << ext_e >>

\* The greatest max_pages and max_depth of the configurations of the model.
MaxPagesBound == 2

MaxDepthBound == 1

\* CrawlerConfig: the options the crawl loop reads, with the seed of the crawl
Configs ==
    [max_pages : 1..MaxPagesBound, max_depth : 0..MaxDepthBound,
     respect_robots_txt : BOOLEAN, parse_sitemaps : BOOLEAN, seed : Seeds]

NoConfig ==
    [max_pages |-> 0, max_depth |-> 0, respect_robots_txt |-> TRUE,
     parse_sitemaps |-> TRUE, seed |-> None]

\* Crawler.__init__: no crawl has started.
CrawlerInit ==
    /\ config = NoConfig
    /\ stats = NoStats
    /\ running = FALSE
    /\ main = "created"
    /\ mlinks = << >>
    /\ wpc = [w \in Callers |-> "created"]
    /\ wlinks = [w \in Callers |-> << >>]
    /\ requested = {}

\* crawl(seed_url) of a crawler with one of the configurations.
CrawlInit ==
    /\ config \in Configs
    /\ stats = NoStats
    /\ running = FALSE
    /\ main = "created"
    /\ mlinks = << >>
    /\ wpc = [w \in Callers |-> "created"]
    /\ wlinks = [w \in Callers |-> << >>]
    /\ requested = {}

\* The URLs a row of the urls table can hold: crawl() inserts seed_url as it
\* was given ("" when main.py resumes), and mark_url_crawled looks up item.url.
TableURLs == Seeds \cup CanonURLs \cup {None}

\* No row in crawl_sessions.
NoSession == [status |-> "none", pages_crawled |-> 0, pages_failed |-> 0]

\* An empty database and content directory; the process has not been
\* signalled and resumes nothing.
StorageInit ==
    /\ session = NoSession
    /\ url_table = [u \in TableURLs |-> "absent"]
    /\ content_log = [u \in CanonURLs |-> 0]
    /\ shutdown = FALSE
    /\ released = FALSE
    /\ resume = FALSE
    /\ wres = [w \in Callers |-> "none"]
    /\ killed = FALSE
    /\ completed_urls = {}

\* CrawlDatabase.create_session: INSERT INTO crawl_sessions (status 'running')
create_session == [status |-> "running", pages_crawled |-> 0, pages_failed |-> 0]

\* CrawlDatabase.add_url: INSERT INTO urls, status 'pending'; an IntegrityError
\* (the row exists) changes nothing.
add_url(table, url) ==
    IF table[url] = "absent" THEN [table EXCEPT ![url] = "pending"] ELSE table

\* A faulty status: a result without error text is stored as failed as well.
MarkedStatus_Failed(error) == "failed"

\* mark_url_crawled: status = 'completed' if not error else 'failed'
MarkedStatus(error) == IF error THEN "failed" ELSE "completed"

\* CrawlDatabase.mark_url_crawled: UPDATE urls SET status = ... WHERE url = ?;
\* without a row for the URL nothing is updated.
mark_url_crawled(table, url, error) ==
    IF table[url] = "absent" THEN table ELSE [table EXCEPT ![url] = MarkedStatus(error)]

\* CrawlDatabase.get_pending_urls: the URLs of the rows with status 'pending',
\* in the order of their insertion (all have depth 0).  The only rows are
\* those of the seed and, after a resume by main.py, of "".
get_pending_urls(table, seed) ==
    (IF table[seed] = "pending" THEN << seed >> ELSE << >>)
    \o (IF table[None] = "pending" THEN << None >> ELSE << >>)

\* ContentStorage.save_page: a record is appended to the content file.
save_page(log, url) == [log EXCEPT ![url] = @ + 1]

\* crawl() runs alone until it creates the workers; its calls of the frontier
\* and of the robots manager are made in the place of this caller.
MainCaller == "w1"

\* can_fetch: the path of the URL, "/" if empty, with the query
PathOf(url) ==
    LET parts == urlparse(url)
        p == IF parts.path = << >> THEN << "/" >> ELSE parts.path
    IN  IF parts.query # << >> THEN p \o << "?" >> \o parts.query ELSE p

\* crawl, not resuming: storage.start_session(seed_url), then
\* await self.frontier.add(seed_url, Priority.HIGHEST, depth=0), up to the
\* notification.
MainSeedPush ==
    /\ main = "created"
    /\ ~resume
    /\ AddPushStep(MainCaller, config.seed, HIGHEST, 0, None)
    /\ session' = create_session
    /\ main' = "seed_notify"
    /\ UNCHANGED << rvars, hvars, bvars, pvars, config, stats, running, mlinks, wpc, wlinks,
                    requested, url_table, content_log, shutdown, released, resume, wres,
                    killed, completed_urls >>

\* crawl: the add of the seed returns; storage.db.add_url(session_id, seed_url)
MainSeedNotify ==
    /\ main = "seed_notify"
    /\ AddNotifyStep(MainCaller)
    /\ url_table' = add_url(url_table, config.seed)
    /\ main' = "sitemaps"
    /\ UNCHANGED << rvars, hvars, bvars, pvars, config, stats, running, mlinks, wpc, wlinks,
                    requested, session, content_log, shutdown, released, resume, wres,
                    killed, completed_urls >>

\* _process_sitemaps: if not self.config.parse_sitemaps: return
MainNoSitemaps ==
    /\ main = "sitemaps"
    /\ ~config.parse_sitemaps
    /\ main' = "start"
    /\ UNCHANGED << fvars, rvars, hvars, bvars, pvars, svars, config, stats, running, mlinks,
                    wpc, wlinks, requested >>

\* _process_sitemaps: get_rules(domain) fetches robots.txt (nothing is cached
\* yet).
MainRulesMiss ==
    /\ main = "sitemaps"
    /\ config.parse_sitemaps
    /\ ~resume
    /\ GetRulesMissStep(MainCaller, get_domain(config.seed))
    /\ main' = "robots_fetch"
    /\ UNCHANGED << fvars, rvars, hvars, pvars, svars, config, stats, running, mlinks, wpc,
                    wlinks, requested >>

\* _process_sitemaps: get_rules returns.
MainRulesFetched(response) ==
    /\ main = "robots_fetch"
    /\ GetRulesFetchedStep(MainCaller, response)
    /\ main' = "sitemap_fetch"
    /\ UNCHANGED << fvars, rvars, hvars, pvars, svars, config, stats, running, mlinks, wpc,
                    wlinks, requested >>

\* _process_sitemaps: discover_sitemaps and process_sitemap have fetched and
\* parsed the sitemaps; the URLs found are those the sitemap lists, of
\* whatever host, or none if the fetches failed.
MainSitemap(found) ==
    /\ main = "sitemap_fetch"
    /\ mlinks' = found
    /\ main' = "sitemap_add"
    /\ UNCHANGED << fvars, rvars, hvars, bvars, pvars, svars, config, stats, running, wpc,
                    wlinks, requested >>

\* _process_sitemaps: frontier.add(url_item.loc, priority=Priority.HIGH,
\* depth=1) of a URL that is known already.
MainAddSeen ==
    /\ main = "sitemap_add"
    /\ mlinks # << >>
    /\ AddSeenStep(MainCaller, mlinks[1], None)
    /\ mlinks' = Tail(mlinks)
    /\ UNCHANGED << rvars, hvars, bvars, pvars, svars, config, stats, running, main, wpc,
                    wlinks, requested >>

\* _process_sitemaps: frontier.add(url_item.loc, priority=Priority.HIGH,
\* depth=1) of a new URL, up to the notification.
MainAddPush ==
    /\ main = "sitemap_add"
    /\ mlinks # << >>
    /\ AddPushStep(MainCaller, mlinks[1], HIGH, 1, None)
    /\ main' = "sitemap_notify"
    /\ UNCHANGED << rvars, hvars, bvars, pvars, svars, config, stats, running, mlinks, wpc,
                    wlinks, requested >>

\* _process_sitemaps: the add returns.
MainAddNotify ==
    /\ main = "sitemap_notify"
    /\ AddNotifyStep(MainCaller)
    /\ mlinks' = Tail(mlinks)
    /\ main' = "sitemap_add"
    /\ UNCHANGED << rvars, hvars, bvars, pvars, svars, config, stats, running, wpc, wlinks,
                    requested >>

\* crawl: self._running = True and the workers are created; the call of
\* get_rules by crawl is over.
MainStart ==
    /\ main = "start" \/ (main = "sitemap_add" /\ mlinks = << >>)
    /\ running' = TRUE
    /\ wpc' = [w \in Callers |-> "loop"]
    /\ main' = "monitor"
    /\ rcall' = [rcall EXCEPT ![MainCaller].stage = "idle"]
    /\ UNCHANGED << fvars, rvars, hvars, robots_txt, user_agent, parsed, rules, path, verdict,
                    cache, fetched, pvars, svars, config, stats, mlinks, wlinks, requested >>

\* A faulty loop condition: the shutdown event is not looked at.
LoopGoesOn_NoShutdown(is_running, is_shutdown) == is_running

\* while self._running and not self._shutdown_event.is_set()
LoopGoesOn(is_running, is_shutdown) == is_running /\ ~is_shutdown

\* crawl, the display loop: all workers are done.
MonitorDone ==
    /\ main = "monitor"
    /\ LoopGoesOn(running, shutdown)
    /\ \A w \in Callers : wpc[w] = "done"
    /\ main' = "update"
    /\ UNCHANGED << fvars, rvars, hvars, bvars, pvars, svars, config, stats, running, mlinks,
                    wpc, wlinks, requested >>

\* crawl: w.cancel() for every worker that is not done, and gather: each is
\* cancelled at the await it is suspended at and leaves the locks of the
\* frontier it holds.
CancelWorkers ==
    /\ wpc' = [w \in Callers |-> IF wpc[w] = "done" THEN "done" ELSE "cancelled"]
    /\ pc' = [w \in Callers |-> "idle"]
    /\ local' = [w \in Callers |-> NoLocal]
    /\ lock' = Free
    /\ cond_lock' = Free
    /\ waiters' = << >>
    /\ UNCHANGED << rvars, hvars, bvars, pvars, queue, seen_bits, seen_count, in_progress,
                    completed_count, error_count, clock, held, added, dispatched, requeued,
                    config, stats, mlinks, wlinks, requested, svars >>

\* crawl, the display loop: stats.total >= max_pages; _running is cleared and
\* the workers that are not done are cancelled.
MonitorStop ==
    /\ main = "monitor"
    /\ LoopGoesOn(running, shutdown)
    /\ \E w \in Callers : wpc[w] # "done"
    /\ Total(stats) >= config.max_pages
    /\ running' = FALSE
    /\ main' = "update"
    /\ CancelWorkers

\* crawl, the display loop: the shutdown event is set; the loop is left and
\* the workers that are not done are cancelled.
MonitorShutdown ==
    /\ main = "monitor"
    /\ ~LoopGoesOn(running, shutdown)
    /\ running' = running
    /\ main' = "update"
    /\ CancelWorkers

\* crawl: storage.db.update_session(session_id, status='completed',
\* pages_crawled=..., pages_failed=...)
MainUpdateSession ==
    /\ main = "update"
    /\ session' = [status |-> "completed", pages_crawled |-> stats.pages_crawled,
                   pages_failed |-> stats.pages_failed]
    /\ main' = "cleanup"
    /\ UNCHANGED << fvars, rvars, hvars, bvars, pvars, config, stats, running, mlinks, wpc,
                    wlinks, requested, url_table, content_log, shutdown, released, resume,
                    wres, killed, completed_urls >>

\* crawl, finally: _cleanup stops the fetcher and closes the storage, which
\* sets the status of the session to 'completed' once more.
MainCleanup ==
    /\ main = "cleanup"
    /\ session' = [session EXCEPT !.status = "completed"]
    /\ released' = TRUE
    /\ main' = "ended"
    /\ UNCHANGED << fvars, rvars, hvars, bvars, pvars, config, stats, running, mlinks, wpc,
                    wlinks, requested, url_table, content_log, shutdown, resume, wres,
                    killed, completed_urls >>

\* _worker: the loop ends, at the while or at the check of max_pages.
WorkerExit(w) ==
    /\ wpc[w] = "loop"
    /\ ~LoopGoesOn(running, shutdown) \/ Total(stats) >= config.max_pages
    /\ wpc' = [wpc EXCEPT ![w] = "done"]
    /\ UNCHANGED << fvars, rvars, hvars, bvars, pvars, svars, config, stats, running, main,
                    mlinks, wlinks, requested >>

\* _worker: stats.total < max_pages, frontier.get(timeout=2.0) is called.
WorkerCheck(w) ==
    /\ wpc[w] = "loop"
    /\ LoopGoesOn(running, shutdown)
    /\ Total(stats) < config.max_pages
    /\ wpc' = [wpc EXCEPT ![w] = "get"]
    /\ UNCHANGED << fvars, rvars, hvars, bvars, pvars, svars, config, stats, running, main,
                    mlinks, wlinks, requested >>

\* _worker in frontier.get
WorkerGetStart(w) ==
    /\ wpc[w] = "get"
    /\ GetStartStep(w, TRUE)
    /\ UNCHANGED << rvars, hvars, bvars, cvars, pvars, svars >>

WorkerGetWait(w) ==
    /\ wpc[w] = "get"
    /\ GetWaitStep(w)
    /\ UNCHANGED << rvars, hvars, bvars, cvars, pvars, svars >>

WorkerGetReady(w) ==
    /\ wpc[w] = "get"
    /\ GetReadyStep(w)
    /\ UNCHANGED << rvars, hvars, bvars, cvars, pvars, svars >>

WorkerGetWoken(w) ==
    /\ wpc[w] = "get"
    /\ GetWokenStep(w)
    /\ UNCHANGED << rvars, hvars, bvars, cvars, pvars, svars >>

\* A faulty test of emptiness: the URLs in flight are not looked at.
is_empty_QueueOnly == queue = << >>

\* URLFrontier.is_empty: len(self._queue) == 0 and len(self._in_progress) == 0
is_empty == queue = << >> /\ in_progress = {}

\* _worker: if not item: if self.frontier.is_empty(): break, else continue
AfterNoItem(w) ==
    /\ wpc' = [wpc EXCEPT ![w] = IF is_empty THEN "done" ELSE "loop"]
    /\ UNCHANGED << rvars, hvars, bvars, pvars, svars, config, stats, running, main, mlinks,
                    wlinks, requested >>

\* _worker: frontier.get timed out.
WorkerGetTimeout(w) ==
    /\ wpc[w] = "get"
    /\ GetTimeoutStep(w)
    /\ AfterNoItem(w)

\* _worker: frontier.get found the queue emptied by another worker.
WorkerGetEmpty(w) ==
    /\ wpc[w] = "get"
    /\ GetEmptyStep(w)
    /\ AfterNoItem(w)

\* _worker: frontier.get returned an item; _fetch_page and _check_robots are
\* entered.
WorkerGetItem(w) ==
    /\ wpc[w] = "get"
    /\ GetPopStep(w)
    /\ wpc' = [wpc EXCEPT ![w] = "robots"]
    /\ rcall' = [rcall EXCEPT ![w].stage = "idle"]
    /\ UNCHANGED << rvars, hvars, robots_txt, user_agent, parsed, rules, path, verdict, cache,
                    fetched, pvars, svars, config, stats, running, main, mlinks, wlinks,
                    requested >>

\* _check_robots: if not self.config.respect_robots_txt: return True
WorkerRobotsOff(w) ==
    /\ wpc[w] = "robots"
    /\ ~config.respect_robots_txt
    /\ wpc' = [wpc EXCEPT ![w] = "fetch"]
    /\ UNCHANGED << fvars, rvars, hvars, bvars, pvars, svars, config, stats, running, main,
                    mlinks, wlinks, requested >>

\* A faulty check: the verdict of the rules is ignored.
Permitted_Always(r, url) == TRUE

\* _check_robots: return await self.robots.can_fetch(url, rules)
Permitted(r, url) == is_allowed(r, PathOf(url))

\* _check_robots with the rules r, and _fetch_page after it: a Crawl-delay is
\* handed to update_delay; a URL that may not be fetched is counted as
\* skipped and _fetch_page returns None.
AfterRules(w, r) ==
    /\ min_interval' = IF r.crawl_delay > 0
                       THEN RaisedInterval(min_interval, r.crawl_delay)
                       ELSE min_interval
    /\ IF Permitted(r, held[w].url)
       THEN /\ wpc' = [wpc EXCEPT ![w] = "fetch"]
            /\ stats' = stats
       ELSE /\ wpc' = [wpc EXCEPT ![w] = "complete_fail"]
            /\ stats' = [stats EXCEPT !.pages_skipped = @ + 1]
    /\ UNCHANGED << fvars, hvars, last_request, rl_lock, now, rpc, rlocal, grants, first_grant,
                    pvars, svars, config, running, main, mlinks, wlinks, requested >>

\* _check_robots: get_rules finds the domain cached.
WorkerRulesHit(w) ==
    /\ wpc[w] = "robots"
    /\ config.respect_robots_txt
    /\ GetRulesHitStep(w, get_domain(held[w].url))
    /\ AfterRules(w, cache[get_domain(held[w].url)][1])

\* _check_robots: get_rules does not find the domain cached and fetches.
WorkerRulesMiss(w) ==
    /\ wpc[w] = "robots"
    /\ config.respect_robots_txt
    /\ GetRulesMissStep(w, get_domain(held[w].url))
    /\ wpc' = [wpc EXCEPT ![w] = "rules_fetch"]
    /\ UNCHANGED << fvars, rvars, hvars, pvars, svars, config, stats, running, main, mlinks,
                    wlinks, requested >>

\* _check_robots: get_rules returns after its fetch.
WorkerRulesFetched(w, response) ==
    /\ wpc[w] = "rules_fetch"
    /\ GetRulesFetchedStep(w, response)
    /\ AfterRules(w, RulesFrom(response, user_agent))

\* What the request of a page comes to: a successful result with HTML or
\* without; a result without an error text whose status is outside [200, 400)
\* (fetch sets error only for an exception and for a body that is too large);
\* a result with an error text; an exception in the try block of _worker.
PageResults == {"html", "no html", "http error", "error", "raised"}

\* FetchResult.success of these results
Succeeded(result) == result \in {"html", "no html"}

\* result.error of these results is set
HasError(result) == result = "error"

\* _fetch_page: fetcher.fetch (or renderer.render) requests the URL.  On a
\* result without success _worker counts a failure and calls
\* mark_url_crawled(..., error=result.error); on an exception it counts a
\* failure; otherwise, with HTML, _process_page collects the links if
\* depth < max_depth.
WorkerFetch(w, result) ==
    /\ wpc[w] = "fetch"
    /\ requested' = requested \cup {held[w].url}
    /\ wres' = [wres EXCEPT ![w] = result]
    /\ IF ~Succeeded(result)
       THEN /\ stats' = [stats EXCEPT !.pages_failed = @ + 1]
            /\ url_table' = IF result = "raised" THEN url_table
                            ELSE mark_url_crawled(url_table, held[w].url, HasError(result))
            /\ wpc' = [wpc EXCEPT ![w] = "complete_fail"]
            /\ wlinks' = wlinks
       ELSE /\ stats' = stats
            /\ url_table' = url_table
            /\ wpc' = [wpc EXCEPT ![w] = IF result = "html" THEN "links" ELSE "count"]
            /\ wlinks' = [wlinks EXCEPT ![w] =
                              IF result = "html" /\ held[w].depth < config.max_depth
                              THEN SiteLinks(held[w].url) ELSE << >>]
    /\ UNCHANGED << fvars, rvars, hvars, bvars, pvars, config, running, main, mlinks, session,
                    content_log, shutdown, released, resume, killed, completed_urls >>

\* _process_page: add_many adds a link that is known already.
WorkerAddSeen(w) ==
    /\ wpc[w] = "links"
    /\ wlinks[w] # << >>
    /\ AddSeenStep(w, wlinks[w][1], None)
    /\ wlinks' = [wlinks EXCEPT ![w] = Tail(@)]
    /\ UNCHANGED << rvars, hvars, bvars, pvars, svars, config, stats, running, main, mlinks,
                    wpc, requested >>

\* _process_page: add_many adds a new link, priority=Priority.NORMAL,
\* depth=depth + 1, up to the notification.
WorkerAddPush(w) ==
    /\ wpc[w] = "links"
    /\ wlinks[w] # << >>
    /\ AddPushStep(w, wlinks[w][1], NORMAL, held[w].depth + 1, None)
    /\ UNCHANGED << rvars, hvars, bvars, cvars, pvars, svars >>

\* _process_page: the add returns.
WorkerAddNotify(w) ==
    /\ wpc[w] = "links"
    /\ AddNotifyStep(w)
    /\ wlinks' = [wlinks EXCEPT ![w] = Tail(@)]
    /\ UNCHANGED << rvars, hvars, bvars, pvars, svars, config, stats, running, main, mlinks,
                    wpc, requested >>

\* _worker: storage.content.save_page(item.url, content)
WorkerSave(w) ==
    /\ wpc[w] = "links"
    /\ wlinks[w] = << >>
    /\ pc[w] = "idle"
    /\ content_log' = save_page(content_log, held[w].url)
    /\ wpc' = [wpc EXCEPT ![w] = "count"]
    /\ UNCHANGED << fvars, rvars, hvars, bvars, pvars, config, stats, running, main, mlinks,
                    wlinks, requested, session, url_table, shutdown, released, resume, wres,
                    killed, completed_urls >>

\* _worker: self.stats.pages_crawled += 1 and
\* mark_url_crawled(session_id, item.url, status, content_type)
WorkerCount(w) ==
    /\ wpc[w] = "count"
    /\ stats' = [stats EXCEPT !.pages_crawled = @ + 1]
    /\ url_table' = mark_url_crawled(url_table, held[w].url, FALSE)
    /\ wpc' = [wpc EXCEPT ![w] = "complete_ok"]
    /\ UNCHANGED << fvars, rvars, hvars, bvars, pvars, config, running, main, mlinks, wlinks,
                    requested, session, content_log, shutdown, released, resume, wres,
                    killed, completed_urls >>

\* _worker: frontier.complete(item.url, success=...) and back to the loop.
WorkerComplete(w) ==
    /\ wpc[w] \in {"complete_ok", "complete_fail"}
    /\ CompleteStep(w, wpc[w] = "complete_ok")
    /\ wpc' = [wpc EXCEPT ![w] = "loop"]
    /\ wres' = [wres EXCEPT ![w] = "none"]
    /\ completed_urls' = IF wpc[w] = "complete_ok" THEN completed_urls \cup {held[w].url}
                         ELSE completed_urls
    /\ UNCHANGED << rvars, hvars, bvars, pvars, config, stats, running, main, mlinks, wlinks,
                    requested, session, url_table, content_log, shutdown, released, resume,
                    killed >>

\* The steps of crawl() itself.
MainNext ==
    \/ MainSeedPush
    \/ MainSeedNotify
    \/ MainNoSitemaps
    \/ MainRulesMiss
    \/ \E response \in RobotsResponses : MainRulesFetched(response)
    \/ \E found \in {<< >>, SiteSitemap, ForeignSitemap} : MainSitemap(found)
    \/ MainAddSeen
    \/ MainAddPush
    \/ MainAddNotify
    \/ MainStart
    \/ MonitorDone
    \/ MonitorStop
    \/ MainUpdateSession
    \/ MainCleanup

\* The steps of the workers.
WorkerNext ==
    \/ \E w \in Callers : WorkerExit(w)
    \/ \E w \in Callers : WorkerCheck(w)
    \/ \E w \in Callers : WorkerGetStart(w)
    \/ \E w \in Callers : WorkerGetWait(w)
    \/ \E w \in Callers : WorkerGetReady(w)
    \/ \E w \in Callers : WorkerGetWoken(w)
    \/ \E w \in Callers : WorkerGetTimeout(w)
    \/ \E w \in Callers : WorkerGetEmpty(w)
    \/ \E w \in Callers : WorkerGetItem(w)
    \/ \E w \in Callers : WorkerRobotsOff(w)
    \/ \E w \in Callers : WorkerRulesHit(w)
    \/ \E w \in Callers : WorkerRulesMiss(w)
    \/ \E w \in Callers, response \in RobotsResponses : WorkerRulesFetched(w, response)
    \/ \E w \in Callers, result \in PageResults : WorkerFetch(w, result)
    \/ \E w \in Callers : WorkerAddSeen(w)
    \/ \E w \in Callers : WorkerAddPush(w)
    \/ \E w \in Callers : WorkerAddNotify(w)
    \/ \E w \in Callers : WorkerSave(w)
    \/ \E w \in Callers : WorkerCount(w)
    \/ \E w \in Callers : WorkerComplete(w)

CrawlNext == MainNext \/ WorkerNext

(***************************************************************************)
(* A crawl whose try block is left by an exception: storage.db.add_url     *)
(* catches sqlite3.IntegrityError only, so any other error of the INSERT   *)
(* of the seed (or the cancellation of the task at that await) leaves      *)
(* crawl() through its finally clause.                                     *)
(***************************************************************************)

\* crawl: the add of the seed returns; storage.db.add_url(session_id,
\* seed_url) raises, no row is written.
MainRaise ==
    /\ main = "seed_notify"
    /\ AddNotifyStep(MainCaller)
    /\ main' = "raised"
    /\ UNCHANGED << rvars, hvars, bvars, pvars, svars, config, stats, running, mlinks, wpc,
                    wlinks, requested >>

\* crawl, finally, with the exception in flight: _cleanup stops the fetcher
\* and closes the storage; close() sets the status of the session to
\* 'completed' as _session_id is set.  The exception leaves crawl().
MainAbortCleanup ==
    /\ main = "raised"
    /\ session' = [session EXCEPT !.status = "completed"]
    /\ released' = TRUE
    /\ main' = "aborted"
    /\ UNCHANGED << fvars, rvars, hvars, bvars, pvars, config, stats, running, mlinks, wpc,
                    wlinks, requested, url_table, content_log, shutdown, resume, wres,
                    killed, completed_urls >>

AbortNext == CrawlNext \/ MainRaise \/ MainAbortCleanup

(***************************************************************************)
(* A crawl whose process is killed and that is resumed, as main.py does,   *)
(* with crawl("", resume=True).  The database and the content file outlive *)
(* the process; the frontier, the robots cache and the counters do not.    *)
(***************************************************************************)

\* The configurations of the crawls that are resumed: no limit of pages is
\* reached, robots.txt and sitemaps are not read.
ResumeConfigs ==
    [max_pages : {Cardinality(RawURLs)}, max_depth : {MaxDepthBound + 1},
     respect_robots_txt : {FALSE}, parse_sitemaps : {FALSE}, seed : Seeds]

ResumeInit ==
    /\ config \in ResumeConfigs
    /\ stats = NoStats
    /\ running = FALSE
    /\ main = "created"
    /\ mlinks = << >>
    /\ wpc = [w \in Callers |-> "created"]
    /\ wlinks = [w \in Callers |-> << >>]
    /\ requested = {}

\* The process dies (SIGKILL, power loss) while its session is 'running': no
\* finally block runs.  A new process is started with --resume: Crawler.__init__
\* builds a new frontier, robots manager, fetcher and counters.
Kill ==
    /\ ~killed
    /\ session.status = "running"
    /\ main # "ended"
    /\ killed' = TRUE
    /\ resume' = TRUE
    /\ queue' = << >>
    /\ seen_bits' = [h \in 0..(BloomSize - 1) |-> FALSE]
    /\ seen_count' = 0
    /\ in_progress' = {}
    /\ completed_count' = 0
    /\ error_count' = 0
    /\ lock' = Free
    /\ cond_lock' = Free
    /\ waiters' = << >>
    /\ clock' = 0
    /\ pc' = [c \in Callers |-> "idle"]
    /\ local' = [c \in Callers |-> NoLocal]
    /\ held' = [c \in Callers |-> NoItem]
    /\ added' = {}
    /\ dispatched' = [u \in CanonURLs |-> 0]
    /\ requeued' = [u \in CanonURLs |-> 0]
    /\ cache' = [h \in Hosts |-> NotCached]
    /\ rcall' = [c \in Callers |-> NoRobotsCall]
    /\ fetched' = [h \in Hosts |-> 0]
    /\ stats' = NoStats
    /\ running' = FALSE
    /\ main' = "created"
    /\ mlinks' = << >>
    /\ wpc' = [w \in Callers |-> "created"]
    /\ wlinks' = [w \in Callers |-> << >>]
    /\ wres' = [w \in Callers |-> "none"]
    /\ shutdown' = FALSE
    /\ released' = FALSE
    /\ UNCHANGED << rvars, hvars, pvars, robots_txt, user_agent, parsed, rules, path, verdict,
                    config, requested, session, url_table, content_log, completed_urls >>

\* crawl, resuming: storage.resume_session() finds the latest session
\* 'running', and db.get_pending_urls reads its pending rows.
MainResumeLoad ==
    /\ main = "created"
    /\ resume
    /\ session.status = "running"
    /\ mlinks' = get_pending_urls(url_table, config.seed)
    /\ main' = "pending_add"
    /\ UNCHANGED << fvars, rvars, hvars, bvars, pvars, svars, config, stats, running, wpc,
                    wlinks, requested >>

\* crawl, resuming: frontier.add(p['url'], Priority.NORMAL, p['depth']) of a
\* pending row (the rows of the table have depth 0), up to the notification.
MainPendingPush ==
    /\ main = "pending_add"
    /\ mlinks # << >>
    /\ AddPushStep(MainCaller, mlinks[1], NORMAL, 0, None)
    /\ main' = "pending_notify"
    /\ UNCHANGED << rvars, hvars, bvars, pvars, svars, config, stats, running, mlinks, wpc,
                    wlinks, requested >>

\* crawl, resuming: the add returns.
MainPendingNotify ==
    /\ main = "pending_notify"
    /\ AddNotifyStep(MainCaller)
    /\ mlinks' = Tail(mlinks)
    /\ main' = "pending_add"
    /\ UNCHANGED << rvars, hvars, bvars, pvars, svars, config, stats, running, wpc, wlinks,
                    requested >>

\* crawl, resuming: the pending rows are added;
\* storage.db.add_url(session_id, seed_url) with the seed_url "" of main.py.
MainResumeStart ==
    /\ main = "pending_add"
    /\ mlinks = << >>
    /\ url_table' = add_url(url_table, None)
    /\ main' = "sitemaps"
    /\ UNCHANGED << fvars, rvars, hvars, bvars, pvars, config, stats, running, mlinks, wpc,
                    wlinks, requested, session, content_log, shutdown, released, resume,
                    wres, killed, completed_urls >>

\* The steps of crawl() when robots.txt and sitemaps are not read and the
\* limit of pages is not reached.
PlainMain ==
    \/ MainSeedPush
    \/ MainSeedNotify
    \/ MainNoSitemaps
    \/ MainStart
    \/ MonitorDone
    \/ MainUpdateSession
    \/ MainCleanup

\* The steps of a worker when robots.txt is not read and every page is
\* served as HTML.
PlainWorkerSteps(w) ==
    \/ WorkerCheck(w)
    \/ WorkerGetStart(w)
    \/ WorkerGetWait(w)
    \/ WorkerGetReady(w)
    \/ WorkerGetWoken(w)
    \/ WorkerGetTimeout(w)
    \/ WorkerGetEmpty(w)
    \/ WorkerGetItem(w)
    \/ WorkerRobotsOff(w)
    \/ WorkerFetch(w, "html")
    \/ WorkerAddSeen(w)
    \/ WorkerAddPush(w)
    \/ WorkerAddNotify(w)
    \/ WorkerSave(w)
    \/ WorkerCount(w)
    \/ WorkerComplete(w)

PlainWorker == \E w \in Callers : PlainWorkerSteps(w)

\* The steps of a crawl of a site whose pages are all served as HTML, with a
\* kill of the process and the resumption.  No signal arrives: the workers
\* leave their loops when the frontier is empty, and the display loop ends
\* when they are done.
ResumeNext ==
    \/ PlainMain
    \/ PlainWorker
    \/ Kill
    \/ MainResumeLoad
    \/ MainPendingPush
    \/ MainPendingNotify
    \/ MainResumeStart

(***************************************************************************)
(* The crawl of the second site, from its root.                            *)
(***************************************************************************)

\* CrawlerConfig(max_depth=3, max_pages=100, respect_robots_txt=False,
\* parse_sitemaps=False) and the seed of the crawl
SiteConfig ==
    [max_pages |-> 100, max_depth |-> 3, respect_robots_txt |-> FALSE,
     parse_sitemaps |-> FALSE, seed |-> site_root]

SiteInit ==
    /\ config = SiteConfig
    /\ stats = NoStats
    /\ running = FALSE
    /\ main = "created"
    /\ mlinks = << >>
    /\ wpc = [w \in Callers |-> "created"]
    /\ wlinks = [w \in Callers |-> << >>]
    /\ requested = {}

SiteNext == PlainMain \/ PlainWorker

(***************************************************************************)
(* A crawl that is sent SIGINT or SIGTERM.                                 *)
(***************************************************************************)

\* handle_shutdown, installed by crawl before its try block:
\* self._shutdown_event.set()
Signal ==
    /\ ~shutdown
    /\ main # "ended"
    /\ shutdown' = TRUE
    /\ UNCHANGED << fvars, rvars, hvars, bvars, cvars, pvars, session, url_table, content_log,
                    released, resume, wres, killed, completed_urls >>

\* The steps of crawl() of a crawl that may be signalled.
ShutdownMain == PlainMain \/ MonitorShutdown

\* The steps of a crawl that may be signalled; fetches may fail.
ShutdownNext ==
    \/ ShutdownMain
    \/ PlainWorker
    \/ Signal
    \/ \E w \in Callers : WorkerExit(w)
    \/ \E w \in Callers, result \in PageResults \ {"html"} : WorkerFetch(w, result)

(***************************************************************************)
(* normalize_url called on URLs written out from their components.         *)
(***************************************************************************)

\* The most slashes appended to the path of a URL of the model.
MaxSlashes == 2

s_HTTPS == << "H", "T", "T", "P", "S" >>

s_ftp == << "f", "t", "p" >>

H_io == << "H", ".", "i", "o" >>

port_80 == << ":", "8", "0" >>

port_443 == << ":", "4", "4", "3" >>

path_a == << "/", "a" >>

path_a_b == << "/", "a", "/", "b" >>

q_a1 == << "a", "=", "1" >>

q_b2 == << "b", "=", "2" >>

\* The spellings of the URLs normalize_url is given: scheme, host, port, path,
\* the slashes after the path, the components of the query, the fragment.
URLParts ==
    [scheme : {s_https, s_HTTPS, s_http, s_ftp},
     host : {h_io, H_io},
     port : {<< >>, port_80, port_443},
     path : {<< >>, path_a, path_a_b},
     slashes : 0..MaxSlashes,
     query : {<< >>, << q_a1, q_b2 >>, << q_b2, q_a1 >>},
     fragment : {<< >>, << "f" >>}]

NoParts ==
    [scheme |-> << >>, host |-> << >>, port |-> << >>, path |-> << >>, slashes |-> 0,
     query |-> << >>, fragment |-> << >>]

\* The URL string with these components.
BuildURL(p) ==
    p.scheme \o u_sep \o p.host \o p.port \o p.path \o [i \in 1..p.slashes |-> "/"]
    \o (IF p.query # << >> THEN << "?" >> \o Join(p.query, "&") ELSE << >>)
    \o (IF p.fragment # << >> THEN << "#" >> \o p.fragment ELSE << >>)

\* No call of normalize_url has been made.
NormalizeIdle ==
    /\ n_parts = NoParts
    /\ n_once = << >>
    /\ n_twice = << >>

\* A URL to normalize.
NormalizeInit ==
    /\ n_parts \in URLParts
    /\ n_once = << >>
    /\ n_twice = << >>

\* normalize_url(url)
NormalizeOnce ==
    /\ n_once = << >>
    /\ n_once' = << normalize_url(BuildURL(n_parts), None) >>
    /\ UNCHANGED << fvars, rvars, hvars, bvars, cvars, svars, n_parts, n_twice, lk_page, lk_opts,
                    lk_out, mvars >>

\* normalize_url(normalize_url(url)), for a URL that was accepted
NormalizeTwice ==
    /\ n_once # << >>
    /\ n_once[1] # None
    /\ n_twice = << >>
    /\ n_twice' = << normalize_url(n_once[1], None) >>
    /\ UNCHANGED << fvars, rvars, hvars, bvars, cvars, svars, n_parts, n_once, lk_page, lk_opts,
                    lk_out, mvars >>

NormalizeNext == NormalizeOnce \/ NormalizeTwice

(***************************************************************************)
(* Calls of HTMLParser.get_crawlable_links                                 *)
(***************************************************************************)

\* No call of get_crawlable_links has been made.
LinksIdle ==
    /\ lk_page = NoPage
    /\ lk_opts = NoOptions
    /\ lk_out = << >>

\* A parsed page and the options of a call.
LinksInit ==
    /\ lk_page \in ParsedPages
    /\ lk_opts \in LinkOptions
    /\ lk_out = << >>

\* parser.get_crawlable_links(parsed, respect_nofollow, internal_only)
LinksCall ==
    /\ lk_out = << >>
    /\ lk_out' = << get_crawlable_links(lk_page, lk_opts) >>
    /\ UNCHANGED << fvars, rvars, hvars, bvars, cvars, svars, n_parts, n_once, n_twice, lk_page,
                    lk_opts, mvars >>

LinksNext == LinksCall

(***************************************************************************)
(* SitemapManager.process_sitemap                                          *)
(***************************************************************************)

\* process_sitemap(sitemap_url, fetch_func, max_depth=3): the default.
DefaultMaxDepth == 3

\* The sitemap URLs of the model.
SitemapURLs == {"index", "part", "deep", "leaf"}

\* The greatest number of sub-sitemaps a sitemap index of the model lists.
MaxSubs == 2

\* The greatest number of calls crawl() makes on one manager in the model (the
\* program makes up to 5, one for each sitemap discovered).
MaxSitemapCalls == 2

SubLists == UNION {[1..n -> SitemapURLs] : n \in 0..MaxSubs}

\* No usable answer: the fetch raised, the status is not 200 or the content is
\* empty.
FailedResponse == [ok |-> FALSE, subs |-> << >>]

\* The answers to the fetch of a sitemap URL: none that is usable, or a
\* document that lists one page, named after the sitemap, and sub-sitemaps.  A
\* document that parse cannot read, or reads with the regex fallback, is one
\* without sub-sitemaps.
SitemapResponses == {FailedResponse} \cup {[ok |-> TRUE, subs |-> l] : l \in SubLists}

\* The sites: any references between the sitemaps, cycles included; "deep"
\* lists one sitemap at most and "leaf" none.
SitemapSites ==
    {s \in [SitemapURLs -> SitemapResponses] :
        Len(s["deep"].subs) <= 1 /\ s["leaf"].subs = << >>}

\* The sitemaps discover_sitemaps hands to crawl().
SitemapRoots == {"index", "part"}

NoSitemaps ==
    /\ site_maps = [u \in SitemapURLs |-> FailedResponse]
    /\ sm_stack = << >>
    /\ processed_sitemaps = {}
    /\ discovered_urls = << >>
    /\ sm_fetches = [u \in SitemapURLs |-> 0]
    /\ sm_deepest = 0
    /\ sm_out = << >>
    /\ sm_calls = 0

\* SitemapManager.__init__, and a site.
SitemapInit ==
    /\ site_maps \in SitemapSites
    /\ sm_stack = << >>
    /\ processed_sitemaps = {}
    /\ discovered_urls = << >>
    /\ sm_fetches = [u \in SitemapURLs |-> 0]
    /\ sm_deepest = 0
    /\ sm_out = << >>
    /\ sm_calls = 0

\* A faulty test: no sitemap counts as processed.
Processed_Never(sitemap_url) == FALSE

\* if sitemap_url in self._processed_sitemaps
Processed(sitemap_url) == sitemap_url \in processed_sitemaps

\* A frame of process_sitemap that was just entered.
Entered(sitemap_url, max_depth) ==
    [url |-> sitemap_url, max_depth |-> max_depth, stage |-> "enter", urls |-> << >>,
     subs |-> << >>]

TopFrame == sm_stack[Len(sm_stack)]

\* The frames once the innermost call has returned result: the caller
\* extends its urls with it.
FramesAfterReturn(stack, result) ==
    IF Len(stack) = 1 THEN << >>
    ELSE SubSeq(stack, 1, Len(stack) - 2)
         \o << [stack[Len(stack) - 1] EXCEPT !.urls = @ \o result] >>

\* return result, from the innermost call
ReturnStep(result) ==
    /\ sm_stack' = FramesAfterReturn(sm_stack, result)
    /\ sm_out' = IF Len(sm_stack) = 1 THEN << result >> ELSE sm_out

\* _process_sitemaps: urls = await self.sitemap.process_sitemap(sitemap_url,
\* self.fetcher.fetch_simple)
SitemapCall(sitemap_url) ==
    /\ sm_stack = << >>
    /\ sm_calls < MaxSitemapCalls
    /\ sm_calls' = sm_calls + 1
    /\ sm_stack' = << Entered(sitemap_url, DefaultMaxDepth) >>
    /\ sm_out' = << >>
    /\ UNCHANGED << fvars, rvars, hvars, bvars, cvars, svars, n_parts, n_once, n_twice, lk_page,
                    lk_opts, lk_out, site_maps, processed_sitemaps, discovered_urls,
                    sm_fetches, sm_deepest >>

\* if sitemap_url in self._processed_sitemaps: return []
\* if max_depth <= 0: return []
SitemapSkip ==
    /\ sm_stack # << >>
    /\ TopFrame.stage = "enter"
    /\ Processed(TopFrame.url) \/ TopFrame.max_depth <= 0
    /\ ReturnStep(<< >>)
    /\ UNCHANGED << fvars, rvars, hvars, bvars, cvars, svars, n_parts, n_once, n_twice, lk_page,
                    lk_opts, lk_out, site_maps, processed_sitemaps, discovered_urls,
                    sm_fetches, sm_deepest, sm_calls >>

\* self._processed_sitemaps.add(sitemap_url) and fetch_func(sitemap_url) is
\* called; the level of nesting of the call is the number of frames.
SitemapFetch ==
    /\ sm_stack # << >>
    /\ TopFrame.stage = "enter"
    /\ ~(Processed(TopFrame.url) \/ TopFrame.max_depth <= 0)
    /\ processed_sitemaps' = processed_sitemaps \cup {TopFrame.url}
    /\ sm_fetches' = [sm_fetches EXCEPT ![TopFrame.url] = @ + 1]
    /\ sm_deepest' = IF Len(sm_stack) > sm_deepest THEN Len(sm_stack) ELSE sm_deepest
    /\ sm_stack' = [sm_stack EXCEPT ![Len(sm_stack)].stage = "fetching"]
    /\ UNCHANGED << fvars, rvars, hvars, bvars, cvars, svars, n_parts, n_once, n_twice, lk_page,
                    lk_opts, lk_out, site_maps, discovered_urls, sm_out, sm_calls >>

\* The fetch raised (except Exception: return []), or the status is not 200,
\* or there is no content: return []
SitemapFailed ==
    /\ sm_stack # << >>
    /\ TopFrame.stage = "fetching"
    /\ ~site_maps[TopFrame.url].ok
    /\ ReturnStep(<< >>)
    /\ UNCHANGED << fvars, rvars, hvars, bvars, cvars, svars, n_parts, n_once, n_twice, lk_page,
                    lk_opts, lk_out, site_maps, processed_sitemaps, discovered_urls,
                    sm_fetches, sm_deepest, sm_calls >>

\* urls, sub_sitemaps = self.parser.parse(content)
SitemapParsed ==
    /\ sm_stack # << >>
    /\ TopFrame.stage = "fetching"
    /\ site_maps[TopFrame.url].ok
    /\ sm_stack' = [sm_stack EXCEPT ![Len(sm_stack)] =
                       [@ EXCEPT !.stage = "subs", !.urls = << TopFrame.url >>,
                                 !.subs = site_maps[TopFrame.url].subs]]
    /\ UNCHANGED << fvars, rvars, hvars, bvars, cvars, svars, n_parts, n_once, n_twice, lk_page,
                    lk_opts, lk_out, site_maps, processed_sitemaps, discovered_urls,
                    sm_fetches, sm_deepest, sm_out, sm_calls >>

\* for sub_sitemap in sub_sitemaps: await self.process_sitemap(sub_sitemap,
\* fetch_func, max_depth - 1)
SitemapSub ==
    /\ sm_stack # << >>
    /\ TopFrame.stage = "subs"
    /\ TopFrame.subs # << >>
    /\ sm_stack' = [sm_stack EXCEPT ![Len(sm_stack)].subs = Tail(@)]
                   \o << Entered(Head(TopFrame.subs), TopFrame.max_depth - 1) >>
    /\ UNCHANGED << fvars, rvars, hvars, bvars, cvars, svars, n_parts, n_once, n_twice, lk_page,
                    lk_opts, lk_out, site_maps, processed_sitemaps, discovered_urls,
                    sm_fetches, sm_deepest, sm_out, sm_calls >>

\* self._discovered_urls.extend(urls); return urls
SitemapReturn ==
    /\ sm_stack # << >>
    /\ TopFrame.stage = "subs"
    /\ TopFrame.subs = << >>
    /\ discovered_urls' = discovered_urls \o TopFrame.urls
    /\ ReturnStep(TopFrame.urls)
    /\ UNCHANGED << fvars, rvars, hvars, bvars, cvars, svars, n_parts, n_once, n_twice, lk_page,
                    lk_opts, lk_out, site_maps, processed_sitemaps, sm_fetches, sm_deepest,
                    sm_calls >>

\* The steps of process_sitemap itself.
SitemapSteps ==
    \/ SitemapSkip
    \/ SitemapFetch
    \/ SitemapFailed
    \/ SitemapParsed
    \/ SitemapSub
    \/ SitemapReturn

SitemapNext ==
    \/ \E sitemap_url \in SitemapRoots : SitemapCall(sitemap_url)
    \/ SitemapSteps

\* No call of normalize_url, get_crawlable_links or process_sitemap on inputs
\* of its own.
PureInit == NormalizeIdle /\ LinksIdle /\ NoSitemaps

(***************************************************************************)
(* Specifications                                                          *)
(***************************************************************************)

vars == << fvars, rvars, hvars, bvars, cvars, pvars, svars >>

Init == FrontierInit /\ RateInit /\ FetchInit /\ RobotsInit /\ CrawlerInit /\ PureInit /\ StorageInit

\* The frontier and its callers.
Next == FrontierNext

Spec == Init /\ [][Next]_vars

\* The rate limiter and its callers.
SpecRate == Init /\ [][RateNext]_vars

\* The fetcher, its limiter and its callers.
SpecFetch == Init /\ [][FetchNext]_vars

\* is_allowed on the rule sets and paths of the model.
InitAllowed == FrontierInit /\ RateInit /\ FetchInit /\ AllowedInit /\ CrawlerInit /\ PureInit /\ StorageInit

SpecAllowed == InitAllowed /\ [][AllowedNext]_vars

\* The robots manager and its callers.
SpecRobots == Init /\ [][RobotsNext]_vars

InitCrawl == FrontierInit /\ RateInit /\ FetchInit /\ RobotsInit /\ CrawlInit /\ PureInit /\ StorageInit

\* A crawl: crawl(), its workers, the frontier and the robots manager.
SpecCrawl == InitCrawl /\ [][CrawlNext]_vars

\* Crawls in which the INSERT of the seed may fail.
SpecAbort == InitCrawl /\ [][AbortNext]_vars

\* Crawls that are killed once and resumed.
InitResume == FrontierInit /\ RateInit /\ FetchInit /\ RobotsInit /\ ResumeInit /\ PureInit /\ StorageInit

SpecResume == InitResume /\ [][ResumeNext]_vars

\* The crawl of the second site.  The event loop runs every task that is
\* ready, and each await of a worker ends: a request by its timeout, a wait
\* for the frontier's lock when the holder leaves it.
InitSite == FrontierInit /\ RateInit /\ FetchInit /\ RobotsInit /\ SiteInit /\ PureInit /\ StorageInit

SpecSite ==
    InitSite /\ [][SiteNext]_vars /\ WF_vars(PlainMain)
    /\ \A w \in Callers : WF_vars(PlainWorkerSteps(w))

\* Crawls that may be signalled.  crawl() itself is never held up for ever: its
\* awaits are those of the frontier's lock, which no worker keeps over an
\* await of I/O, the 0.5 s sleep of the display loop, and the gather of
\* cancelled workers.  Nothing is assumed of the progress of the workers,
\* whose requests may take any time.
SpecShutdown == InitResume /\ [][ShutdownNext]_vars /\ WF_vars(ShutdownMain)

\* The event loop runs every call of the frontier that can go on: a call that
\* has started takes its next step.  Nothing obliges a caller to start a call,
\* and a timeout need not expire.
FrontierCallGoesOn(c) ==
    \/ AddNotify(c)
    \/ GetWait(c)
    \/ GetReady(c)
    \/ GetWoken(c)
    \/ GetEmpty(c)
    \/ GetPop(c)

SpecFair == Spec /\ \A c \in Callers : WF_vars(FrontierCallGoesOn(c))

InitNormalize ==
    FrontierInit /\ RateInit /\ FetchInit /\ RobotsInit /\ CrawlerInit /\ NormalizeInit
    /\ LinksIdle /\ NoSitemaps /\ StorageInit

\* normalize_url applied once and twice to a URL.
SpecNormalize == InitNormalize /\ [][NormalizeNext]_vars

InitLinks ==
    FrontierInit /\ RateInit /\ FetchInit /\ RobotsInit /\ CrawlerInit /\ NormalizeIdle
    /\ LinksInit /\ NoSitemaps /\ StorageInit

\* get_crawlable_links applied to a parsed page.
SpecLinks == InitLinks /\ [][LinksNext]_vars

InitSitemap ==
    FrontierInit /\ RateInit /\ FetchInit /\ RobotsInit /\ CrawlerInit /\ NormalizeIdle
    /\ LinksIdle /\ SitemapInit /\ StorageInit

\* process_sitemap called on the sitemaps of a site.  It is one coroutine,
\* awaited by crawl(); its only awaits are those of fetch_func, which returns
\* or raises, so a call that can take a step takes it.
SpecSitemap == InitSitemap /\ [][SitemapNext]_vars /\ WF_vars(SitemapSteps)

InitParse == FrontierInit /\ RateInit /\ FetchInit /\ ParseInit /\ CrawlerInit /\ PureInit /\ StorageInit

\* parse on the robots.txt files of the model, and is_allowed on its rules.
SpecParse == InitParse /\ [][ParseNext]_vars

\* The same, with the event loop running: a caller that can take a step takes
\* it, and the time passes while all of them wait.
SpecFetchFair == SpecFetch /\ WF_vars(FetchNext)

(***************************************************************************)
(* Properties of the frontier                                              *)
(***************************************************************************)

\* The canonical URLs in the queue.
QueuedURLs == {queue[i].url : i \in 1..Len(queue)}

\* The positions of the queue that hold url.
Copies(q, url) == {i \in 1..Len(q) : q[i].url = url}

\* In this step get returns an item to caller c.
Returned(c) == held[c] = NoItem /\ held'[c] # NoItem

\* In this step retry pushes a copy of the item caller c holds.
Requeues(c) ==
    /\ held[c] # NoItem
    /\ requeued'[held[c].url] = requeued[held[c].url] + 1

\* C1: as long as a canonical URL has not been retried, get has returned it at
\* most once; and a canonical URL that was added is known to the test of add,
\* so that adding it again is rejected and leaves the queue as it is, with the
\* earlier copy queued, in flight or completed.
C1_DispatchedAtMostOnce ==
    /\ [](\A u \in CanonURLs : requeued[u] = 0 => dispatched[u] <= 1)
    /\ [](\A u \in added : AlreadyKnown(u))
    /\ [][\A u \in added :
            requeued'[u] = requeued[u] =>
                Cardinality(Copies(queue', u)) <= Cardinality(Copies(queue, u))]_vars

\* Three added URLs without a retry: one queued, one in flight, one completed.
C1_Witness ==
    /\ \A u \in CanonURLs : requeued[u] = 0
    /\ completed_count >= 1
    /\ \E u, v, w \in added :
          /\ u \in QueuedURLs
          /\ v \in in_progress
          /\ w \notin QueuedURLs \cup in_progress
          /\ dispatched[w] = 1

\* C2: a canonical URL is at most once in the queue and never both in the
\* queue and in flight; the URLs in flight are those of the items that get
\* returned and whose holder has not yet given them back; when a holder gives
\* an item back without a requeue, the URL leaves the in-flight set and the
\* queue stays as it is.
C2_QueuedOrInFlight ==
    /\ [](\A u \in CanonURLs : Cardinality(Copies(queue, u)) <= 1)
    /\ [](QueuedURLs \cap in_progress = {})
    /\ [](in_progress = {held[c].url : c \in {d \in Callers : held[d] # NoItem}})
    /\ [][\A c \in Callers :
            (held[c] # NoItem /\ held'[c] = NoItem /\ requeued' = requeued) =>
                /\ held[c].url \notin in_progress'
                /\ held[c].url \notin {queue'[i].url : i \in 1..Len(queue')}
                /\ queue' = queue]_vars

\* A URL was completed and is in neither set, while another URL is queued and
\* a third one is in flight.
C2_Witness ==
    /\ completed_count + error_count >= 1
    /\ queue # << >>
    /\ in_progress # {}
    /\ \E u \in added :
          /\ dispatched[u] >= 1
          /\ u \notin in_progress
          /\ u \notin QueuedURLs

\* C3: when get returns an item, no item left in the queue has a smaller
\* priority number than the returned one.
C3_MostUrgentFirst ==
    [][\A c \in Callers :
          Returned(c) =>
              \A i \in 1..Len(queue') : held'[c].priority <= queue'[i].priority]_vars

\* LOW, HIGH and HIGHEST were added in that order and the first get returned
\* the HIGHEST item.
C3_Witness ==
    \E c \in Callers :
        /\ held[c] # NoItem
        /\ held[c].priority = HIGHEST
        /\ held[c].timestamp = 3
        /\ Len(queue) = 2
        /\ \E i, j \in 1..Len(queue) :
              /\ queue[i].priority = LOW /\ queue[i].timestamp = 1
              /\ queue[j].priority = HIGH /\ queue[j].timestamp = 2

\* C4: when get returns an item, every item of the same priority left in the
\* queue was enqueued after the returned one.
C4_FifoAmongEqualPriority ==
    [][\A c \in Callers :
          Returned(c) =>
              \A i \in 1..Len(queue') :
                  queue'[i].priority = held'[c].priority =>
                      held'[c].timestamp < queue'[i].timestamp]_vars

\* C5: every canonical URL that add accepted is reported by the seen filter;
\* no bit of the filter is ever cleared; the seen counter is the number of
\* accepted adds, and it moves only in the step in which add accepts a URL,
\* by one.
C5_SeenNeverForgets ==
    /\ [](\A u \in added : BloomContains(seen_bits, u))
    /\ [](seen_count = Cardinality(added))
    /\ [][\A h \in DOMAIN seen_bits : seen_bits[h] => seen_bits'[h]]_vars
    /\ [][LET accepted == \E c \in Callers : pc[c] = "idle" /\ pc'[c] = "add_notify"
          IN  IF accepted THEN seen_count' = seen_count + 1
                          ELSE seen_count' = seen_count]_vars

\* Two URLs were accepted, one of them was dispatched and given back, and a
\* URL that was never added is reported as seen (a false positive).
C5_Witness ==
    /\ seen_count = 2
    /\ \E u \in added : dispatched[u] >= 1 /\ u \notin in_progress \cup QueuedURLs
    /\ \E u \in CanonURLs \ added : BloomContains(seen_bits, u)

\* C6: the seen counter is at least the sum of the completed counter, the
\* error counter, the queue size and the in-flight count.
C6_SeenCountBound ==
    seen_count >= completed_count + error_count + Len(queue) + Cardinality(in_progress)

\* Every term of the sum is positive, after a retry.
C6_Witness ==
    /\ completed_count >= 1
    /\ error_count >= 1
    /\ Len(queue) + Cardinality(in_progress) >= 1
    /\ \E u \in CanonURLs : requeued[u] >= 1

C8_RetryBounded ==
    /\ [](\A i \in 1..Len(queue) : queue[i].retry_count <= MaxRetries)
    /\ [](\A c \in Callers : held[c].retry_count <= MaxRetries)
    /\ [](\A u \in CanonURLs : dispatched[u] <= MaxRetries + 1)
    /\ [][\A c \in Callers :
            (RetryGiveUp(c) \/ RetryPush(c)) =>
                /\ held[c].url \notin in_progress'
                /\ IF held[c].retry_count >= MaxRetries
                   THEN /\ error_count' = error_count + 1
                        /\ queue' = queue
                        /\ requeued' = requeued
                   ELSE /\ error_count' = error_count
                        /\ Len(queue') = Len(queue) + 1
                        /\ Cardinality(Copies(queue', held[c].url)) = 1
                        /\ \E i \in 1..Len(queue') :
                              /\ queue'[i].url = held[c].url
                              /\ queue'[i].retry_count = held[c].retry_count + 1
                        /\ Requeues(c)]_vars

\* A URL was dispatched max_retries + 1 times, retried after each dispatch,
\* and given up by the last retry.
C8_Witness ==
    /\ error_count = 1
    /\ completed_count = 0
    /\ \E u \in added :
          /\ dispatched[u] = MaxRetries + 1
          /\ requeued[u] = MaxRetries
          /\ u \notin in_progress \cup QueuedURLs

\* C9: get returns without an item only out of a wait that timed out; and an
\* item get returned is in the in-flight set from the step that popped it.
C9_NoItemOnlyAfterTimeout ==
    /\ [][\A c \in Callers :
            (pc[c] \in {"get_waiting", "get_lock"} /\ pc'[c] = "idle" /\ held'[c] = NoItem) =>
                (pc[c] = "get_waiting" /\ local[c].timeout)]_vars
    /\ [][\A c \in Callers :
            Returned(c) =>
                /\ held'[c].url \in in_progress'
                /\ Len(queue') = Len(queue) - 1]_vars

(***************************************************************************)
(* Properties of the rate limiter                                          *)
(***************************************************************************)

\* C10: two successive grants for a host are at least the minimum interval
\* apart: the interval the later acquire read, which is never below the
\* configured one; so the n-th grant for a host is at least n - 1 configured
\* intervals after the first.
C10_GrantsSpaced ==
    /\ [][\A h \in Hosts :
            (grants'[h] = grants[h] + 1 /\ grants[h] >= 1) =>
                /\ last_request'[h] - last_request[h] >=
                      (IF rl_lock = Free THEN min_interval ELSE rlocal[rl_lock].interval)
                /\ last_request'[h] - last_request[h] >= MinInterval]_vars
    /\ [](\A h \in Hosts :
            grants[h] >= 1 =>
                last_request[h] - first_grant[h] >= (grants[h] - 1) * MinInterval)

\* A host was granted as often as the model's time allows, each grant exactly
\* one interval after the one before, while the other host was granted too.
C10_Witness ==
    \E h, g \in Hosts :
        /\ h # g
        /\ grants[h] = Rounds + 1
        /\ last_request[h] - first_grant[h] = Rounds * MinInterval
        /\ grants[g] >= 1

\* C11: two successive GET requests of fetch to one host start at least the
\* current minimum interval apart, whatever delay is slept between acquire and
\* the GET.  The limiter spaces the grants; the GET starts a random delay after
\* its grant, so a caller granted later with a shorter delay follows too soon.
C11_GetsSpaced ==
    [][\A c \in Callers :
          (attempts'[c] = attempts[c] + 1 /\ last_get[fetch[c].domain] >= 0)
              => now - last_get[fetch[c].domain] >= min_interval]_vars

\* C12: update_delay(host, d) leaves the interval applied to every other host
\* unchanged.  The limiter keeps one min_interval for all hosts, so raising it
\* for one host raises it for all.
C12_OtherHostsUnchanged ==
    [][\A h \in Hosts, d \in Delays :
          UpdateDelay(h, d) =>
              \A g \in Hosts \ {h} : IntervalFor(g)' = IntervalFor(g)]_vars

\* The back-offs a call has slept after its first n failed attempts: 2^0, 2^1,
\* ... seconds.
ExpectedBackoffs(n) == [i \in 1..n |-> TicksPerSecond * 2^(i - 1)]

Over(c) == fetch[c].stage \in {"returned", "raised"}

C13_Bounded(c) ==
    /\ attempts[c] <= ConfigMaxRetries + 1
    /\ Len(backoffs[c]) <= ConfigMaxRetries
    /\ backoffs[c] = ExpectedBackoffs(Len(backoffs[c]))
    /\ Len(backoffs[c]) =
           IF fetch[c].stage = "backoff" THEN attempts[c]
           ELSE IF attempts[c] = 0 \/ fetch[c].stage \in {"acquire", "delay"} THEN attempts[c]
           ELSE attempts[c] - 1
    /\ fetch[c].stage = "backoff" => fetch[c].failure \in {TimeoutError, ClientError}
    /\ (Over(c) /\ fetch[c].failure \in {TimeoutError, ClientError}) =>
           /\ attempts[c] = ConfigMaxRetries + 1
           /\ fetch[c].stage = "returned"
           /\ fetch[c].result.status = 0
           /\ fetch[c].result.error =
                  IF fetch[c].failure = TimeoutError THEN "Request timeout" ELSE "Client error"
    /\ (Over(c) /\ fetch[c].result.error \in {"Request timeout", "Client error"}) =>
           attempts[c] = ConfigMaxRetries + 1

\* C13: a call of fetch ends, after at most max_retries + 1 GET attempts; the
\* i-th timeout or client error (i from 0, i < max_retries) is followed by a
\* back-off of 2^i seconds and a retry, and a timeout or client-error result is
\* returned only after attempt max_retries + 1 has failed.
C13_RetriesBoundedAndEnds ==
    /\ [](\A c \in Callers : C13_Bounded(c))
    /\ \A c \in Callers : (fetch[c].stage # "idle") ~> Over(c)

C13_Witness ==
    \E c \in Callers :
        /\ fetch[c].stage = "returned"
        /\ fetch[c].result = FetchResult(0, "Request timeout")
        /\ attempts[c] = ConfigMaxRetries + 1
        /\ backoffs[c] = ExpectedBackoffs(ConfigMaxRetries)

\* C14: fetch never raises to its caller; a call whose last request failed
\* (timeout, client error, oversized body, unreadable body, any other
\* exception) returns a result with the error populated, so success is false,
\* and an unexpected error gives status 0.
C14_NeverRaises ==
    \A c \in Callers :
        /\ fetch[c].stage # "raised"
        /\ fetch[c].stage = "returned" =>
              /\ fetch[c].failure # NoExc =>
                    /\ fetch[c].result.error # NoError
                    /\ ~Success(fetch[c].result)
              /\ fetch[c].failure = OtherError => fetch[c].result.status = 0
              /\ fetch[c].failure = NoExc => fetch[c].result.error = NoError

C14_Witness ==
    /\ \E c \in Callers :
          /\ fetch[c].stage = "returned"
          /\ fetch[c].failure = OtherError
          /\ fetch[c].result = FetchResult(0, "Unexpected error")
    /\ \E c \in Callers :
          /\ fetch[c].stage = "returned"
          /\ fetch[c].failure = "oversized"
          /\ fetch[c].result = FetchResult(200, "Content too large")

\* The places of the path a pattern can have matched up to, after its first
\* n characters: a reference for pattern matching, by sets of positions.
RECURSIVE MatchEnds(_, _, _)
MatchEnds(pattern, p, n) ==
    IF n = 0 THEN {0}
    ELSE LET before == MatchEnds(pattern, p, n - 1)
         IN  IF pattern[n] = "*"
             THEN {k \in 0..Len(p) : \E j \in before : j <= k}
             ELSE IF pattern[n] = "$" /\ n = Len(pattern)
             THEN before \cap {Len(p)}
             ELSE {k \in 1..Len(p) : (k - 1) \in before /\ p[k] = pattern[n]}

RefMatches(pattern, p) == MatchEnds(pattern, p, Len(pattern)) # {}

\* The lengths of the patterns of a list that match the path
MatchLengths(patterns, p) ==
    {Len(patterns[i]) : i \in {j \in 1..Len(patterns) : RefMatches(patterns[j], p)}}

RefAllowed(r, p) ==
    LET A == MatchLengths(r.allowed, p)
        D == MatchLengths(r.disallowed, p)
    IN  \/ A = {} /\ D = {}
        \/ A # {} /\ \A d \in D : \E a \in A : a >= d

\* C17: is_allowed(rules, path) is the reference decision: with A the length
\* of the longest matching Allow pattern and D that of the longest matching
\* Disallow pattern, the path is allowed iff no pattern matches or A >= D.
C17_LongestMatchWins ==
    verdict # NoVerdict => verdict[1] = RefAllowed(rules, path)

\* Disallow /p with Allow /p/q blocks /p and allows /p/q; Disallow /e$ blocks
\* /e and allows /e/m.
C17_Examples ==
    LET r1 == RobotsRules(<< << "/", "p", "/", "q" >> >>, << << "/", "p" >> >>, NoDelay)
        r2 == RobotsRules(<< >>, << << "/", "e", "$" >> >>, NoDelay)
    IN  /\ ~is_allowed(r1, << "/", "p" >>)
        /\ is_allowed(r1, << "/", "p", "/", "q" >>)
        /\ ~is_allowed(r2, << "/", "e" >>)
        /\ is_allowed(r2, << "/", "e", "/", "m" >>)

C17_Witness ==
    /\ rules = RobotsRules(<< << "/", "p", "/", "q" >> >>,
                           << << "/", "p" >>, << "/", "e", "$" >> >>, NoDelay)
    /\ path = << "/", "e", "/", "m" >>
    /\ verdict = << TRUE >>
    /\ C17_Examples

\* The rules of a robots.txt by groups: a group is a run of User-agent lines
\* and the rule lines after it; the rule lines of a group are recorded iff one
\* of its User-agent lines matches the agent.
RefGroupLine(st, line, agent) ==
    LET d == Directive(line)
    IN  IF d.skip THEN st
        ELSE IF d.directive = s_user_agent
        THEN [st EXCEPT !.in_agents = TRUE,
                        !.group_matches = \/ matches_user_agent(d.value, agent)
                                          \/ st.in_agents /\ st.group_matches]
        ELSE IF d.directive \in {s_disallow, s_allow, s_crawl_delay}
        THEN LET r == st.rules
                 recorded ==
                     IF ~st.group_matches \/ d.value = << >> THEN r
                     ELSE IF d.directive = s_disallow
                     THEN [r EXCEPT !.disallowed = Append(@, d.value)]
                     ELSE IF d.directive = s_allow
                     THEN [r EXCEPT !.allowed = Append(@, d.value)]
                     ELSE IF ParseFloat(d.value) # NoDelay
                     THEN [r EXCEPT !.crawl_delay = ParseFloat(d.value)]
                     ELSE r
             IN  [st EXCEPT !.in_agents = FALSE, !.rules = recorded]
        ELSE st

RECURSIVE RefGroupLines(_, _, _)
RefGroupLines(lines, st, agent) ==
    IF lines = << >> THEN st
    ELSE RefGroupLines(Tail(lines), RefGroupLine(st, lines[1], agent), agent)

RefParse(content, agent) ==
    RefGroupLines(Split(content, "\n"),
                  [rules |-> EmptyRules, in_agents |-> FALSE, group_matches |-> FALSE],
                  agent).rules

\* C16: parse records the Allow, Disallow and Crawl-delay lines of a group iff
\* at least one User-agent line of the group matches the configured agent,
\* whatever the order of the User-agent lines.  In parse each User-agent line
\* overwrites applies_to_us, so the last User-agent line of a group decides.
C16_AnyAgentLineOfGroup ==
    parsed => rules = RefParse(robots_txt, user_agent)

\* A call of get_rules that fetched returns now.
Fetched(c) == rcall[c].stage = "fetching" /\ rcall'[c].stage = "returned"

\* A call of get_rules starts now.
Called(c) == rcall[c].stage = "idle" /\ rcall'[c].stage # "idle"

\* C15: get_rules is memoized per host and tolerates failure: a call whose
\* fetch raises or gives a non-200 status returns empty rules, under which
\* every path is allowed, and caches them; a call for a host that is cached
\* returns the cached rules without fetching, and a cached host stays cached.
C15_MemoizedAndTolerant ==
    /\ [][\A c \in Callers :
             (Fetched(c) /\ rcall'[c].failed) =>
                 /\ rcall'[c].result = EmptyRules
                 /\ cache'[rcall[c].domain] = << EmptyRules >>
                 /\ \A p \in Paths : is_allowed(rcall'[c].result, p)]_vars
    /\ [][\A c \in Callers :
             (Called(c) /\ cache[rcall'[c].domain] # NotCached) =>
                 /\ rcall'[c].stage = "returned"
                 /\ rcall'[c].result = cache[rcall'[c].domain][1]
                 /\ fetched' = fetched
                 /\ cache' = cache]_vars
    /\ [][\A h \in Hosts : cache[h] # NotCached => cache'[h] # NotCached]_vars
    /\ [](\A h \in Hosts : fetched[h] <= Cardinality(Callers))

\* A caller's first call failed and cached empty rules; its second call, for
\* the same host, got them from the cache: the host was fetched once.
C15_Witness ==
    \E c \in Callers, h \in Hosts :
        /\ rcall[c] = [stage |-> "returned", domain |-> h, failed |-> FALSE,
                       result |-> EmptyRules, calls |-> 2]
        /\ cache[h] = << EmptyRules >>
        /\ fetched[h] = 1
        /\ \A g \in Hosts \ {h} : fetched[g] = 0
        /\ \A d \in Callers \ {c} : rcall[d].calls = 0
\* C18: with respect_robots_txt on, a worker requests a URL only if the rules
\* get_rules returned for its host allow the URL's path and query, the seed
\* included; when they do not, the worker adds one to pages_skipped without a
\* request, and its next step is frontier.complete(url, success=False), after
\* which it is back at the head of its loop.
Cancelled(w) == wpc'[w] = "cancelled"

C18_Checked(w) ==
    (/\ config.respect_robots_txt
     /\ wpc[w] \in {"robots", "rules_fetch"}
     /\ wpc'[w] \notin {wpc[w], "rules_fetch"}
     /\ ~Cancelled(w))
    => IF is_allowed(rcall'[w].result, PathOf(held[w].url))
       THEN wpc'[w] = "fetch" /\ stats' = stats
       ELSE /\ wpc'[w] = "complete_fail"
            /\ stats' = [stats EXCEPT !.pages_skipped = @ + 1]
            /\ requested' = requested

C18_Completed(w) ==
    (wpc[w] = "complete_fail" /\ wpc'[w] # "complete_fail" /\ ~Cancelled(w))
    => /\ wpc'[w] = "loop"
       /\ held[w].url \notin in_progress'
       /\ error_count' = error_count + 1
       /\ completed_count' = completed_count
       /\ held'[w] = NoItem

C18_Requested ==
    requested' # requested
    => \E w \in Callers :
           /\ wpc[w] = "fetch"
           /\ requested' = requested \cup {held[w].url}
           /\ config.respect_robots_txt
              => is_allowed(rcall[w].result, PathOf(held[w].url))

C18_DisallowedNeverRequested ==
    [][/\ \A w \in Callers : C18_Checked(w) /\ C18_Completed(w)
       /\ C18_Requested]_vars

\* The seed is disallowed: it was handed to a worker, skipped and completed,
\* and has not been requested.
C18_Witness ==
    /\ config.respect_robots_txt
    /\ config.seed = page_b
    /\ cache[h_io] # NotCached
    /\ ~is_allowed(cache[h_io][1], PathOf(Normalized[page_b]))
    /\ dispatched[Normalized[page_b]] = 1
    /\ stats.pages_skipped = 1
    /\ error_count = 1
    /\ Normalized[page_b] \notin in_progress
    /\ Normalized[page_b] \notin requested
    /\ \E w \in Callers : wpc[w] = "loop"

\* C19: with max_depth = 0 no URL but the seed is ever handed to a worker,
\* whatever the other options are.
C19_OnlySeedDispatched ==
    config.max_depth = 0
    => \A u \in CanonURLs : u # Normalized[config.seed] => dispatched[u] = 0

\* C20: the total of pages_crawled, pages_failed and pages_skipped never
\* exceeds max_pages.
C20_TotalWithinMaxPages == Total(stats) <= config.max_pages

\* C27: normalize_url is idempotent: applied to its own result for an accepted
\* URL, it returns that result.
C27_Idempotent == n_twice # << >> => n_twice[1] = n_once[1]

\* C28: URLs that differ only in the case of scheme and host, an explicit
\* default port, trailing slashes on a non-root path, a fragment or the order
\* of the query components have one canonical string: lower-case scheme and
\* host, no default port, the path ("/" if empty) without trailing slashes,
\* the query components in ascending order and no fragment; a URL whose scheme
\* is not http or https is rejected.
DefaultPort(scheme) == IF scheme = s_http THEN port_80 ELSE port_443

RefQuery(q) ==
    IF q = << >> THEN << >>
    ELSE Join(CHOOSE r \in [1..Len(q) -> {q[i] : i \in 1..Len(q)}] :
                  /\ \A x \in {q[i] : i \in 1..Len(q)} :
                         Cardinality({i \in 1..Len(q) : q[i] = x})
                         = Cardinality({i \in 1..Len(r) : r[i] = x})
                  /\ \A i \in 1..(Len(r) - 1) : ~StrLess(r[i + 1], r[i]), "&")

Canonical(p) ==
    LET scheme == Lower(p.scheme)
        query == RefQuery(p.query)
    IN  scheme \o u_sep \o Lower(p.host)
        \o (IF p.port = DefaultPort(scheme) THEN << >> ELSE p.port)
        \o (IF p.path = << >> THEN << "/" >> ELSE p.path)
        \o (IF query # << >> THEN << "?" >> \o query ELSE << >>)

\* The URL's path is the root, or a non-root path with any trailing slashes.
C28_Covered(p) == p.path # << >> \/ p.slashes <= 1

C28_OneCanonicalForm ==
    n_once # << >>
    => IF Lower(n_parts.scheme) \in {s_http, s_https}
       THEN C28_Covered(n_parts) => n_once[1] = Canonical(n_parts)
       ELSE n_once[1] = None

\* "HTTPS://H.io:443/a/?b=2&a=1#f" has become "https://h.io/a?a=1&b=2".
C28_Witness ==
    /\ n_parts = [scheme |-> s_HTTPS, host |-> H_io, port |-> port_443, path |-> path_a,
                  slashes |-> 1, query |-> << q_b2, q_a1 >>, fragment |-> << "f" >>]
    /\ n_once = << s_https \o u_sep \o h_io \o path_a \o << "?" >> \o q_a1 \o << "&" >> \o q_b2 >>

\* C29: get_crawlable_links returns no link if the robots meta contains
\* "nofollow" in any case; otherwise the list it returns has no duplicates,
\* holds exactly the URLs of the links that are kept (not nofollow when
\* respect_nofollow, internal when internal_only), and orders them by their
\* first kept occurrence in parsed.links.
C29_Kept(i) ==
    /\ ~(lk_opts.respect_nofollow /\ lk_page.links[i].nofollow)
    /\ ~(lk_opts.internal_only /\ ~lk_page.links[i].is_internal)

C29_First(u) ==
    CHOOSE i \in 1..Len(lk_page.links) :
        /\ C29_Kept(i) /\ lk_page.links[i].url = u
        /\ \A j \in 1..(i - 1) : ~(C29_Kept(j) /\ lk_page.links[j].url = u)

C29_MetaNoFollow ==
    \E k \in 1..Len(lk_page.robots) :
        /\ k + 7 <= Len(lk_page.robots)
        /\ \A i \in 1..8 : LowerText(lk_page.robots)[k + i - 1] = m_nofollow[i]

C29_CrawlableLinks ==
    lk_out # << >>
    => LET urls == lk_out[1]
       IN  IF C29_MetaNoFollow
           THEN urls = << >>
           ELSE /\ \A i, j \in 1..Len(urls) : i # j => urls[i] # urls[j]
                /\ {urls[i] : i \in 1..Len(urls)}
                   = {lk_page.links[i].url : i \in {k \in 1..Len(lk_page.links) : C29_Kept(k)}}
                /\ \A i, j \in 1..Len(urls) :
                       i < j => C29_First(urls[i]) < C29_First(urls[j])

\* A page with an external link and two internal ones, called with the
\* defaults: the internal links are returned in their order.
C29_Witness ==
    /\ lk_out = << << Normalized[page_c], Normalized[page_a] >> >>
    /\ lk_opts = NoOptions
    /\ Len(lk_page.links) = 3
    /\ lk_page.links[1] = ExtractedLink(ext_x, FALSE)
    /\ lk_page.links[2] = ExtractedLink(Normalized[page_c], FALSE)
    /\ lk_page.links[3] = ExtractedLink(Normalized[page_a], FALSE)

\* C30: a caller blocked in get without a timeout is woken once the queue
\* holds an item, whether add or retry put it there.
C30_Blocked(c) == pc[c] = "get_waiting" /\ ~local[c].timeout

C30_WaiterWoken ==
    \A c \in Callers : (C30_Blocked(c) /\ queue # << >>) ~> ~C30_Blocked(c)

\* C22: once frontier.complete(u, success=True) was called for a URL u with a
\* record in the content log, the urls table holds a row for u with status
\* 'completed'.
C22_RecordHasCompletedRow ==
    \A u \in CanonURLs :
        (content_log[u] > 0 /\ u \in completed_urls) => url_table[u] = "completed"

\* C23: when _worker has handled a result that was not successful (an error
\* text, or an HTTP status outside [200, 400)) and is about to call
\* frontier.complete(url, False), the row of the URL has status 'failed'.
C23_FailurePersisted ==
    \A w \in Callers :
        (wpc[w] = "complete_fail" /\ wres[w] \in {"http error", "error"})
            => url_table[held[w].url] = "failed"

\* C21: the content file of a session never holds two records of one URL,
\* also when the session is resumed after a kill of the process.
C21_OneRecordPerURL == \A u \in CanonURLs : content_log[u] <= 1

\* The URLs a crawl from url reaches when links are followed from pages of a
\* depth below max_depth.
RECURSIVE Reached(_, _)
Reached(url, depth) ==
    {url} \cup
    IF depth = 0 THEN {}
    ELSE UNION { Reached(Normalized[SiteLinks(url)[i]], depth - 1) :
                     i \in 1..Len(SiteLinks(url)) }

\* What a crawl that is not interrupted completes.
C24_Uninterrupted ==
    (main = "ended" /\ ~killed)
        => completed_urls = Reached(Normalized[config.seed], config.max_depth)

\* C24: when a crawl that was killed and resumed has ended, the URLs completed
\* (before and after the kill) are those of the crawl that is not interrupted.
C24_ResumedCompletesSame ==
    (main = "ended" /\ killed)
        => completed_urls = Reached(Normalized[config.seed], config.max_depth)

\* The crawl has ended in order: every worker is done or cancelled, the
\* session is 'completed' with the counters of the crawl, and _cleanup has
\* released the fetcher and the storage.
Terminated ==
    /\ main = "ended"
    /\ \A w \in Callers : wpc[w] \in {"done", "cancelled"}
    /\ session = [status |-> "completed", pages_crawled |-> stats.pages_crawled,
                  pages_failed |-> stats.pages_failed]
    /\ released

\* C25: once the shutdown event is set, crawl() ends in order, whatever the
\* frontier holds and whatever the workers are doing.
C25_ShutdownTerminates == shutdown ~> Terminated

\* A signalled crawl has ended while URLs were queued, an item was in flight
\* and a worker had to be cancelled.
C25_Witness ==
    /\ shutdown
    /\ Terminated
    /\ queue # << >>
    /\ in_progress # {}
    /\ \E w \in Callers : wpc[w] = "cancelled"

\* The pages of the second site, as the frontier knows them.
SitePages == {site_root, site_a, site_b, site_c}

\* The crawl of the second site has ended with its four pages completed, each
\* handed out and requested once.
SiteDone ==
    /\ main = "ended"
    /\ completed_urls = SitePages
    /\ requested = SitePages
    /\ \A u \in SitePages : dispatched[u] = 1
    /\ stats = [pages_crawled |-> 4, pages_failed |-> 0, pages_skipped |-> 0]

\* C26: every crawl of the second site with max_depth 3 and max_pages 100 ends
\* with exactly its four pages completed, each fetched once, and the URL of
\* the other host is never added to the frontier nor requested.
C26_SiteCrawl ==
    /\ <>[]SiteDone
    /\ [](ext_e \notin added /\ ext_e \notin requested /\ dispatched[ext_e] = 0)

\* The crawl has ended after /at was offered twice, by / and by /bx.
C26_Witness ==
    /\ main = "ended"
    /\ Cardinality(completed_urls) = 4
    /\ seen_count = 4
    /\ \A w \in Callers : wpc[w] = "done"

\* C40: once the page of the seed was crawled and frontier.complete was called
\* for it, the row of the seed in the urls table is 'completed' or 'failed'.
C40_SeedRowTerminal ==
    Normalized[config.seed] \in completed_urls
        => url_table[config.seed] \in {"completed", "failed"}

\* C31: no item a worker holds has a depth above max_depth.
C31_DepthWithinMax ==
    \A w \in Callers : held[w].url # None => held[w].depth <= config.max_depth

\* C34: when an exception was raised while a worker processed an item whose
\* URL has a row, the row is 'failed' when frontier.complete(url, False) is
\* called.
C34_RaisedMarkedFailed ==
    \A w \in Callers :
        (wpc[w] = "complete_fail" /\ wres[w] = "raised"
         /\ url_table[held[w].url] # "absent")
            => url_table[held[w].url] = "failed"

\* C33: when the session of a signalled crawl is marked 'completed', no URL is
\* in flight: frontier.complete was called for every item handed out.
C33_NothingInFlight ==
    (shutdown /\ session.status = "completed") => in_progress = {}

\* C36: robots.txt of a host is requested at most once by the workers and
\* crawl() of one process.
C36_OneRobotsFetchPerHost == \A h \in Hosts : fetched[h] <= 1

\* C38: while a caller sleeps inside acquire for one host, a call of acquire
\* for another host whose interval has elapsed can be granted at once.
C38_OtherHostNotBlocked ==
    \A c \in Callers, domain \in Hosts :
        (/\ rpc[c] = "sleeping"
         /\ rlocal[c].domain # domain
         /\ WaitTime(IntervalFor(domain), now, last_request[domain]) <= 0)
            => ENABLED (\E other \in Callers \ {c} : AcquireNow(other, domain))

\* C37: every URL handed to a worker is on the host of the seed.
C37_DispatchedOnSeedHost ==
    \A w \in Callers :
        held[w].url # None => get_domain(held[w].url) = get_domain(config.seed)

\* C39: a crawl() that was left by an exception has not recorded its session
\* as 'completed'.
C39_AbortedNotCompleted == main = "aborted" => session.status # "completed"

\* Every worker has left its loop.
PoolDone == \A w \in Callers : wpc[w] = "done"

\* C32: in a crawl without signal and below max_pages, frontier.complete of a
\* page that was fetched comes after each of its links was passed to add; a
\* worker that got no item leaves its loop only with the queue and the set of
\* URLs in flight both empty; when all workers have left, no URL is queued
\* or in flight; and every URL that was added is handed to a worker at last.
C32_LinksBeforeComplete ==
    /\ [][\A w \in Callers :
            (wpc[w] = "complete_ok" /\ wpc'[w] = "loop")
                => /\ wlinks[w] = << >>
                   /\ held[w].depth < config.max_depth
                        => \A i \in 1..Len(SiteLinks(held[w].url)) :
                               Normalized[SiteLinks(held[w].url)[i]] \in added]_vars
    /\ [][\A w \in Callers :
            (wpc[w] = "get" /\ wpc'[w] = "done")
                => (queue = << >> /\ in_progress = {})]_vars
    /\ [](PoolDone => (queue = << >> /\ in_progress = {}))
    /\ \A u \in SitePages : (u \in added) ~> (dispatched[u] >= 1)

\* The workers have all left through the test of emptiness, after the four
\* pages of the site were added and handed out; crawl() has not looked yet.
C32_Witness ==
    /\ PoolDone
    /\ main = "monitor"
    /\ added = SitePages
    /\ \A u \in SitePages : dispatched[u] >= 1

\* C35: every call of process_sitemap returns; no sitemap URL is fetched twice
\* by one manager; no fetch is made deeper than the third level of nesting;
\* the list returned holds pages of sitemaps that were fetched and answered.
C35_SitemapsTerminate ==
    /\ []((sm_stack # << >>) => <>(sm_stack = << >> /\ sm_out # << >>))
    /\ [](\A u \in SitemapURLs : sm_fetches[u] <= 1)
    /\ [](sm_deepest <= DefaultMaxDepth)
    /\ [](sm_out # << >> =>
            \A i \in 1..Len(sm_out[1]) :
                site_maps[sm_out[1][i]].ok /\ sm_fetches[sm_out[1][i]] = 1)

\* The call on an index whose part refers back to it and whose chain goes down
\* to a fourth level has returned: three sitemaps fetched, the fourth not.
C35_Witness ==
    /\ site_maps["index"].subs = << "part" >>
    /\ site_maps["part"].subs = << "index", "deep" >>
    /\ site_maps["deep"].subs = << "leaf" >>
    /\ site_maps["leaf"].ok
    /\ sm_stack = << >>
    /\ sm_out = << << "index", "part", "deep" >> >>
    /\ sm_deepest = DefaultMaxDepth
    /\ sm_fetches["leaf"] = 0

============================================================================
